---- MODULE Spec2Model ----
(***************************************************************************)
(* Event-sourced market-order saga: event log with transactional outbox,   *)
(* the outbox relay, a message bus with manual ack, the processed set, the *)
(* Order and Position aggregates and the four saga handlers with their     *)
(* compensations.                                                          *)
(*                                                                         *)
(* Identifiers (event_id, position_id) are UUIDs in the program; only      *)
(* their equality is ever read, so the model draws them from counters at   *)
(* the moment the event or message becomes visible (commit or publish).    *)
(***************************************************************************)
EXTENDS Naturals, Integers, Sequences, FiniteSets, Bags, TLC

\* ------------------------------------------------------------------ bounds
MaxOrders == 1
NumWorkers == 2
MaxFaults == 1
MaxChanges == 4
MaxStored == 3
MaxNotifyMsgs == 3
MaxNotifyFaults == 2
MaxBookEvents == 5
MaxBookPrice == 2
MaxBookAmount == 2
MaxBookIds == 2

\* ------------------------------------------------------- program constants
RelayBatchLimit == 100
MinOrderAmount == 10

Orders == 1..MaxOrders
Workers == 1..NumWorkers

OrderAgg(o) == <<"Order", o>>
PositionAgg(k) == <<"Position", k>>

VARIABLES
    log,        \* events table, in commit order
    outbox,     \* outbox table, in commit order (created_at order)
    processed,  \* processed_events.event_id
    queue,      \* bag of messages waiting in the bound queues
    wk,         \* per consumer: handler position and locals
    nextId,     \* next fresh event_id
    nextPos,    \* next fresh position_id
    faults,     \* injected faults so far
    pubSeq,     \* history: event ids in the order the relay published them
    swapCalls,  \* history: ExecuteSwap calls per order
    call,       \* a caller's aggregates and the last command it invoked
    notif,      \* notification service: its queues, consumers, notifier calls
    book        \* a caller's OrderBook and the last command it invoked

vars == <<log, outbox, processed, queue, wk, nextId, nextPos, faults,
          pubSeq, swapCalls, call, notif, book>>

\* The services beside the saga and the caller of Order and Position.
sideVars == <<notif, book>>

\* Everything but the caller's aggregates.
sagaVars == <<log, outbox, processed, queue, wk, nextId, nextPos, faults,
              pubSeq, swapCalls>>

CanFault == faults < MaxFaults

\* ------------------------------------------------------------ sequences
Range(s) == {s[i] : i \in DOMAIN s}

\* ------------------------------------------------------ Order aggregate
\* Of the Order's fields, those a command or a handler reads: Status,
\* Version, OrderType, FromAmount and Changes.
NewOrder ==
    [status |-> "", version |-> 0, changes |-> <<>>, orderType |-> "",
     fromAmount |-> 0]

\* Order.When: the state transition of one event. OrderCompleted carries
\* the aggregate's own FromAmount; OrderUpdated sets from_amount when the
\* key is present (amount 0 stands for an absent key).
OrderWhen(o, e) ==
    [o EXCEPT
        !.status = CASE e.type = "OrderAccepted"  -> "pending"
                     [] e.type = "SwapExecuting"  -> "executing"
                     [] e.type = "OrderCompleted" -> "completed"
                     [] e.type = "OrderFailed"    -> "failed"
                     [] e.type = "OrderCancelled" -> "failed"
                     [] OTHER                     -> o.status,
        !.orderType = IF e.type = "OrderAccepted" THEN e.otype ELSE o.orderType,
        !.fromAmount = IF e.type = "OrderAccepted" THEN e.amount
                       ELSE IF e.type = "OrderUpdated" /\ e.amount # 0 THEN e.amount
                       ELSE o.fromAmount,
        !.version = e.ver]

\* Order.Apply: When, then append to Changes.
OrderApply(o, e) ==
    [OrderWhen(o, e) EXCEPT !.changes = Append(o.changes, e)]

\* Replay: When for each event in order. The singleton sets bind the
\* value of each step, so that it is computed once.
RECURSIVE ReplayOrder(_, _)
ReplayOrder(o, events) ==
    IF events = <<>> THEN o
    ELSE CHOOSE r \in {ReplayOrder(next, rest) :
                            next \in {OrderWhen(o, Head(events))},
                            rest \in {Tail(events)}} : TRUE

\* An uncommitted event: type, version and the payload fields read later
\* (OrderFailed.Reason, PositionClosed.Reason, PositionUpdated.AddedOrderID).
NewEvent(type, ver, ref, reason) ==
    [type |-> type, ver |-> ver, ref |-> ref, reason |-> reason,
     amount |-> 0, otype |-> "", key |-> <<>>]

\* An event that carries an amount and an order type (OrderAccepted) or
\* an amount (OrderUpdated).
AmountEvent(type, ver, amount, otype) ==
    [NewEvent(type, ver, 0, "") EXCEPT !.amount = amount, !.otype = otype]

Ok(agg) == [ok |-> TRUE, agg |-> agg]
Err(agg) == [ok |-> FALSE, agg |-> agg]

\* AcceptOrder without the minimum order amount.
AcceptOrder_NoMinimum(o, fromAmount, orderType) ==
    IF fromAmount <= 0 THEN Err(o)
    ELSE IF orderType \notin {"market", "limit"} THEN Err(o)
    ELSE Ok(OrderApply(o, AmountEvent("OrderAccepted", 1, fromAmount, orderType)))

AcceptOrder(o, fromAmount, orderType) ==
    IF fromAmount <= 0 THEN Err(o)
    ELSE IF fromAmount < MinOrderAmount THEN Err(o)
    ELSE IF orderType \notin {"market", "limit"} THEN Err(o)
    ELSE Ok(OrderApply(o, AmountEvent("OrderAccepted", 1, fromAmount, orderType)))

\* QuotePrice numbering its event from the next version but one.
QuotePrice_SkipsVersion(o, price, toAmount) ==
    IF o.status # "pending" THEN Err(o)
    ELSE IF price <= 0 \/ toAmount <= 0 THEN Err(o)
    ELSE Ok(OrderApply(o, NewEvent("PriceQuoted", o.version + 2, 0, "")))

QuotePrice(o, price, toAmount) ==
    IF o.status # "pending" THEN Err(o)
    ELSE IF price <= 0 \/ toAmount <= 0 THEN Err(o)
    ELSE Ok(OrderApply(o, NewEvent("PriceQuoted", o.version + 1, 0, "")))

\* generateIdempotencyKey: "swap-" followed by the order id.
generateIdempotencyKey(orderID) == <<"swap-", orderID>>

\* StartSwapExecution without the check of the status.
StartSwapExecution_AnyStatus(o, idempotencyKey) ==
    Ok(OrderApply(o, [NewEvent("SwapExecuting", o.version + 1, 0, "")
                         EXCEPT !.key = idempotencyKey]))

\* StartSwapExecution storing no idempotency key in its event.
StartSwapExecution_NoKey(o, idempotencyKey) ==
    IF o.status # "pending" THEN Err(o)
    ELSE Ok(OrderApply(o, NewEvent("SwapExecuting", o.version + 1, 0, "")))

StartSwapExecution(o, idempotencyKey) ==
    IF o.status # "pending" THEN Err(o)
    ELSE Ok(OrderApply(o, [NewEvent("SwapExecuting", o.version + 1, 0, "")
                              EXCEPT !.key = idempotencyKey]))

RecordSwapExecution(o) ==
    IF o.status # "executing" THEN Err(o)
    ELSE Ok(OrderApply(o, NewEvent("SwapExecuted", o.version + 1, 0, "")))

\* CompleteOrder asking for a pending order.
CompleteOrder_FromPending(o) ==
    IF o.status = "completed" THEN Ok(o)
    ELSE IF o.status # "pending" THEN Err(o)
    ELSE Ok(OrderApply(o, NewEvent("OrderCompleted", o.version + 1, 0, "")))

CompleteOrder(o) ==
    IF o.status = "completed" THEN Ok(o)
    ELSE IF o.status # "executing" THEN Err(o)
    ELSE Ok(OrderApply(o, NewEvent("OrderCompleted", o.version + 1, 0, "")))

\* FailOrder emitting OrderFailed again on an order that already failed.
FailOrder_FailedAgain(o, reason) ==
    IF o.status = "completed" THEN Err(o)
    ELSE Ok(OrderApply(o, NewEvent("OrderFailed", o.version + 1, 0, reason)))

\* FailOrder that also fails a completed order.
FailOrder_Completed(o, reason) ==
    IF o.status = "failed" THEN Ok(o)
    ELSE Ok(OrderApply(o, NewEvent("OrderFailed", o.version + 1, 0, reason)))

FailOrder(o, reason) ==
    IF o.status = "failed" THEN Ok(o)
    ELSE IF o.status = "completed" THEN Err(o)
    ELSE Ok(OrderApply(o, NewEvent("OrderFailed", o.version + 1, 0, reason)))

InitializeOrder(o) ==
    IF o.status # "pending" THEN Err(o)
    ELSE Ok(OrderApply(o, NewEvent("OrderInitialized", o.version + 1, 0, "")))

SetLimitPrice(o, limitPrice) ==
    IF o.orderType # "limit" THEN Err(o)
    ELSE IF o.status # "pending" THEN Err(o)
    ELSE IF limitPrice <= 0 THEN Err(o)
    ELSE Ok(OrderApply(o, NewEvent("LimitPriceSet", o.version + 1, 0, "")))

\* UpdateOrder with params {"from_amount": fromAmount}, or with no
\* from_amount key when fromAmount is 0.
UpdateOrder(o, fromAmount) ==
    IF o.status = "completed" THEN Err(o)
    ELSE IF o.status = "failed" THEN Err(o)
    ELSE Ok(OrderApply(o, AmountEvent("OrderUpdated", o.version + 1, fromAmount, "")))

CancelOrder(o, reason) ==
    IF o.status = "failed" THEN Ok(o)
    ELSE IF o.status = "completed" THEN Err(o)
    ELSE IF o.status = "executing" THEN Err(o)
    ELSE Ok(OrderApply(o, NewEvent("OrderCancelled", o.version + 1, 0, reason)))

CheckBalances(o, availableBalance) ==
    IF o.status # "pending" THEN Err(o)
    ELSE IF availableBalance < o.fromAmount
    THEN Ok(OrderApply(o, NewEvent("BalanceCheckFailed", o.version + 1, 0, "")))
    ELSE Ok(OrderApply(o, NewEvent("BalanceCheckPassed", o.version + 1, 0, "")))

PlaceInOrderBook(o) ==
    IF o.orderType # "limit" THEN Err(o)
    ELSE IF o.status # "pending" THEN Err(o)
    ELSE Ok(OrderApply(o, NewEvent("OrderPlacedInBook", o.version + 1, 0, "")))

\* PartiallyFill appending its event twice.
PartiallyFill_TwoEvents(o, filledAmount) ==
    IF o.status # "executing" THEN Err(o)
    ELSE IF filledAmount <= 0 \/ filledAmount > o.fromAmount THEN Err(o)
    ELSE Ok(OrderApply(OrderApply(o,
                NewEvent("OrderPartiallyFilled", o.version + 1, 0, "")),
                NewEvent("OrderPartiallyFilled", o.version + 2, 0, "")))

PartiallyFill(o, filledAmount) ==
    IF o.status # "executing" THEN Err(o)
    ELSE IF filledAmount <= 0 \/ filledAmount > o.fromAmount THEN Err(o)
    ELSE Ok(OrderApply(o, NewEvent("OrderPartiallyFilled", o.version + 1, 0, "")))

\* --------------------------------------------------- Position aggregate
NewPosition == [status |-> "", version |-> 0, changes |-> <<>>]

PositionWhen(p, e) ==
    [p EXCEPT
        !.status = CASE e.type = "PositionCreated" -> "open"
                     [] e.type = "PositionClosed"  -> "closed"
                     [] OTHER                      -> p.status,
        !.version = e.ver]

PositionApply(p, e) ==
    [PositionWhen(p, e) EXCEPT !.changes = Append(p.changes, e)]

RECURSIVE ReplayPosition(_, _)
ReplayPosition(p, events) ==
    IF events = <<>> THEN p
    ELSE CHOOSE r \in {ReplayPosition(next, rest) :
                            next \in {PositionWhen(p, Head(events))},
                            rest \in {Tail(events)}} : TRUE

CreatePosition(p) ==
    Ok(PositionApply(p, NewEvent("PositionCreated", 1, 0, "")))

AddOrder(p, orderID) ==
    IF p.status # "open" THEN Err(p)
    ELSE Ok(PositionApply(p, NewEvent("PositionUpdated", p.version + 1, orderID, "")))

ClosePosition(p, reason) ==
    IF p.status = "closed" THEN Ok(p)
    ELSE Ok(PositionApply(p, NewEvent("PositionClosed", p.version + 1, 0, reason)))

\* --------------------------------------------------- OrderBook aggregate
NewOrderBook ==
    [status |-> "", version |-> 0, buy |-> <<>>, sell |-> <<>>,
     lastPrice |-> 0, changes |-> <<>>]

\* An OrderBook event; the fields a type does not have are 0 or "".
BookEvent(type, ver, id, other, price, amount, side) ==
    [type |-> type, ver |-> ver, id |-> id, other |-> other, price |-> price,
     amount |-> amount, side |-> side]

\* sort.Slice, which is not stable: any arrangement of the slice in which
\* no element is less than one before it. dir is "desc" for the buy side
\* (less = higher price) and "asc" for the sell side.
SortSlice(s, dir) ==
    {p \in {[i \in DOMAIN s |-> s[f[i]]] : f \in Permutations(DOMAIN s)} :
        \A i, j \in DOMAIN p :
            i < j => IF dir = "desc" THEN p[i].price >= p[j].price
                                     ELSE p[i].price <= p[j].price}

Without(s, i) == SubSeq(s, 1, i - 1) \o SubSeq(s, i + 1, Len(s))

FirstWithId(s, orderID) ==
    CHOOSE i \in DOMAIN s :
        s[i].id = orderID /\ \A j \in 1..(i - 1) : s[j].id # orderID

\* removeOrUpdateOrder that keeps an order whose remaining amount is 0.
removeOrUpdateOrder_Keeps(s, orderID, matchedAmount) ==
    IF \A i \in DOMAIN s : s[i].id # orderID THEN s
    ELSE [s EXCEPT ![FirstWithId(s, orderID)].remaining = @ - matchedAmount]

\* removeOrUpdateOrder on one side of the book.
removeOrUpdateOrder(s, orderID, matchedAmount) ==
    IF \A i \in DOMAIN s : s[i].id # orderID THEN s
    ELSE LET i == FirstWithId(s, orderID) IN
         IF s[i].remaining - matchedAmount <= 0
         THEN Without(s, i)
         ELSE [s EXCEPT ![i].remaining = @ - matchedAmount]

removeOrder(s, orderID) ==
    IF \A i \in DOMAIN s : s[i].id # orderID THEN s
    ELSE Without(s, FirstWithId(s, orderID))

\* OrderBook.When: the books the event can leave.
BookWhen(ob, e) ==
    CASE e.type = "OrderBookCreated" ->
            {[ob EXCEPT !.status = "active", !.version = e.ver]}
      [] e.type = "LimitOrderAdded" ->
            LET order == [id |-> e.id, price |-> e.price, remaining |-> e.amount] IN
            IF e.side = "buy"
            THEN {[ob EXCEPT !.buy = p, !.version = e.ver] :
                      p \in SortSlice(Append(ob.buy, order), "desc")}
            ELSE {[ob EXCEPT !.sell = p, !.version = e.ver] :
                      p \in SortSlice(Append(ob.sell, order), "asc")}
      [] e.type = "OrdersMatched" ->
            {[ob EXCEPT !.buy = removeOrUpdateOrder(ob.buy, e.id, e.amount),
                        !.sell = removeOrUpdateOrder(ob.sell, e.other, e.amount),
                        !.lastPrice = e.price, !.version = e.ver]}
      [] e.type = "LimitOrderCancelled" ->
            {[ob EXCEPT !.buy = IF e.side = "buy" THEN removeOrder(@, e.id) ELSE @,
                        !.sell = IF e.side = "buy" THEN @ ELSE removeOrder(@, e.id),
                        !.version = e.ver]}

\* OrderBook.Apply: the results of a command that emits e.
BookApply(ob, e) ==
    {Ok([b EXCEPT !.changes = Append(ob.changes, e)]) : b \in BookWhen(ob, e)}

CreateOrderBook(ob) ==
    BookApply(ob, BookEvent("OrderBookCreated", 1, 0, 0, 0, 0, ""))

AddLimitOrder(ob, orderID, price, amount, side) ==
    IF ob.status # "active" THEN {Err(ob)}
    ELSE IF side # "buy" /\ side # "sell" THEN {Err(ob)}
    ELSE IF price <= 0 \/ amount <= 0 THEN {Err(ob)}
    ELSE BookApply(ob, BookEvent("LimitOrderAdded", ob.version + 1, orderID, 0,
                                 price, amount, side))

min(a, b) == IF a < b THEN a ELSE b

\* Prices are multiples of 10, so that the mean of two is an integer.
MatchOrders(ob) ==
    IF ob.status # "active" THEN {Err(ob)}
    ELSE IF Len(ob.buy) = 0 \/ Len(ob.sell) = 0 THEN {Ok(ob)}
    ELSE LET bestBuy  == ob.buy[1]
             bestSell == ob.sell[1]
         IN  IF bestBuy.price >= bestSell.price
             THEN BookApply(ob, BookEvent("OrdersMatched", ob.version + 1,
                                bestBuy.id, bestSell.id,
                                (bestBuy.price + bestSell.price) \div 2,
                                min(bestBuy.remaining, bestSell.remaining), ""))
             ELSE {Ok(ob)}

CancelLimitOrder(ob, orderID, side) ==
    IF ob.status # "active" THEN {Err(ob)}
    ELSE LET s == IF side = "buy" THEN ob.buy ELSE ob.sell IN
         IF \A i \in DOMAIN s : s[i].id # orderID THEN {Err(ob)}
         ELSE BookApply(ob, BookEvent("LimitOrderCancelled", ob.version + 1,
                                      orderID, 0, 0, 0, side))

\* ----------------------------------------------------------- event store
\* EventStore.Load: the aggregate's rows in ascending version order.
RECURSIVE SortByVersion(_)
SortByVersion(S) ==
    IF S = {} THEN <<>>
    ELSE CHOOSE r \in {<<m>> \o SortByVersion(S \ {m}) :
                    m \in {CHOOSE e \in S : \A f \in S : e.ver <= f.ver}} : TRUE

EventStoreLoad(aggId) ==
    SortByVersion({log[i] : i \in {j \in DOMAIN log : log[j].agg = aggId}})

\* The events table without idx_aggregate_version.
UniqueViolation_EventIdOnly(rows, evs) ==
    \/ \E i \in DOMAIN evs : \E r \in Range(rows) : r.id = evs[i].id
    \/ \E i, j \in DOMAIN evs : i # j /\ evs[i].id = evs[j].id

\* The unique constraints of the events table: event_id UNIQUE and
\* idx_aggregate_version UNIQUE (aggregate_id, version).
UniqueViolation(rows, evs) ==
    \/ \E i \in DOMAIN evs : \E r \in Range(rows) :
            \/ r.id = evs[i].id
            \/ r.agg = evs[i].agg /\ r.ver = evs[i].ver
    \/ \E i, j \in DOMAIN evs :
            /\ i # j
            /\ \/ evs[i].id = evs[j].id
               \/ evs[i].agg = evs[j].agg /\ evs[i].ver = evs[j].ver

OutboxRow(e) ==
    [id |-> e.id, agg |-> e.agg, type |-> e.type, ver |-> e.ver,
     published |-> FALSE]

\* The rows an aggregate's Changes become: event ids are drawn here.
Stamp(aggId, changes, by) ==
    [i \in DOMAIN changes |->
        [id |-> nextId + i - 1, agg |-> aggId, type |-> changes[i].type,
         ver |-> changes[i].ver, ref |-> changes[i].ref,
         reason |-> changes[i].reason, amount |-> changes[i].amount,
         otype |-> changes[i].otype, key |-> changes[i].key, by |-> by,
         handling |-> IF by \in Workers
                      THEN <<wk[by].msg.key, wk[by].msg.agg>>
                      ELSE <<"none", 0>>]]

SaveOK(evs) == ~UniqueViolation(log, evs)

\* EventStore.Save: one transaction inserting the events and their outbox
\* rows; a unique violation rolls the whole transaction back.
EventStoreSave(evs) ==
    IF SaveOK(evs)
    THEN /\ log' = log \o evs
         /\ outbox' = outbox \o [i \in DOMAIN evs |-> OutboxRow(evs[i])]
         /\ nextId' = nextId + Len(evs)
    ELSE UNCHANGED <<log, outbox, nextId>>

\* ------------------------------------------------------ aggregate store
OrderDeserializable ==
    {"OrderAccepted", "PriceQuoted", "SwapExecuting", "SwapExecuted",
     "OrderCompleted", "OrderFailed"}

\* deserializePositionEvent with a case for PositionUpdated.
PositionDeserializable_WithUpdated ==
    {"PositionCreated", "PositionClosed", "PositionUpdated"}

PositionDeserializable == {"PositionCreated", "PositionClosed"}

LoadOrderAggregate(o) ==
    LET events == EventStoreLoad(OrderAgg(o)) IN
    IF events = <<>> THEN Err(NewOrder)
    ELSE IF \E i \in DOMAIN events : events[i].type \notin OrderDeserializable
    THEN Err(NewOrder)
    ELSE Ok(ReplayOrder(NewOrder, events))

LoadPositionAggregate(k) ==
    LET events == EventStoreLoad(PositionAgg(k)) IN
    IF events = <<>> THEN Err(NewPosition)
    ELSE IF \E i \in DOMAIN events : events[i].type \notin PositionDeserializable
    THEN Err(NewPosition)
    ELSE Ok(ReplayPosition(NewPosition, events))

\* Save*Aggregate writing the events in place of the stored ones.
SaveAggregate_Rewrites(aggId, agg, by) ==
    IF agg.changes = <<>>
    THEN UNCHANGED <<log, outbox, nextId>>
    ELSE /\ log' = Stamp(aggId, agg.changes, by)
         /\ outbox' = outbox \o [i \in DOMAIN agg.changes |->
                                    OutboxRow(Stamp(aggId, agg.changes, by)[i])]
         /\ nextId' = nextId + Len(agg.changes)

\* Save*Aggregate: no append for empty Changes; the events otherwise.
SaveAggregate(aggId, agg, by) ==
    IF agg.changes = <<>>
    THEN UNCHANGED <<log, outbox, nextId>>
    ELSE EventStoreSave(Stamp(aggId, agg.changes, by))

SaveAggregateOK(aggId, agg, by) ==
    agg.changes = <<>> \/ SaveOK(Stamp(aggId, agg.changes, by))

\* ------------------------------------------------------------ message bus
\* Queues bound by OrderSagaRefactored.Start; the topic exchange drops a
\* message whose routing key has no bound queue.
BoundKeys == {"OrderAccepted", "PriceQuoted", "PositionCreatedForOrder", "SwapExecuted"}

NoMsg == [key |-> "none", id |-> 0, agg |-> 0, ver |-> 0, pos |-> 0]

Message(key, id, agg, ver, pos) ==
    [key |-> key, id |-> id, agg |-> agg, ver |-> ver, pos |-> pos]

\* RabbitMQ.Publish with routing key = event type.
Publish(q, m) ==
    IF m.key \in BoundKeys THEN q (+) SetToBag({m}) ELSE q

\* The body the relay publishes is the stored event_data: the event's own
\* fields, without a position_id in metadata.
RowMessage(r) == Message(r.type, r.id, r.agg[2], r.ver, 0)

\* --------------------------------------------------------------- initial
IdleWorker ==
    [pc |-> "idle", msg |-> NoMsg, o |-> NewOrder, p |-> NewPosition,
     pos |-> 0, dup |-> FALSE, lost |-> FALSE, sent |-> FALSE]

\* A caller holding a new Order and a new Position, before any command.
NoCall ==
    [cmd |-> "none", args |-> <<>>, ok |-> TRUE, pre |-> NewOrder,
     o |-> NewOrder, ppre |-> NewPosition, p |-> NewPosition]

\* A caller holding a new OrderBook, before any command.
NoBook ==
    [cmd |-> "none", args |-> <<>>, ok |-> TRUE, pre |-> NewOrderBook,
     ob |-> NewOrderBook]

\* The routing keys NotificationService.Start subscribes to, one consumer
\* each.
NotifyKeys == {"OrderCompleted", "OrderFailed"}

\* The notification service before any message: empty queues, idle
\* consumers, no notifier call.
NoNotif ==
    [queue |-> EmptyBag,
     c |-> [k \in NotifyKeys |-> [pc |-> "idle", msg |-> NoMsg]],
     calls |-> <<>>, published |-> 0, faults |-> 0]

Init ==
    /\ log = <<>>
    /\ outbox = <<>>
    /\ processed = {}
    /\ queue = EmptyBag
    /\ wk = [w \in Workers |-> IdleWorker]
    /\ nextId = 1
    /\ nextPos = 1
    /\ faults = 0
    /\ pubSeq = <<>>
    /\ swapCalls = [o \in Orders |-> 0]
    /\ call = NoCall
    /\ notif = NoNotif
    /\ book = NoBook

\* ------------------------------------------------------------ CreateOrder
\* CreateOrderUseCase.Execute for a fresh order id.
CreateOrder(o) ==
    /\ EventStoreLoad(OrderAgg(o)) = <<>>
    /\ LET r == AcceptOrder(NewOrder, 1000, "market") IN
        /\ r.ok
        /\ SaveAggregate(OrderAgg(o), r.agg, 0)
    /\ UNCHANGED <<processed, queue, wk, nextPos, faults, pubSeq, swapCalls>>
    /\ UNCHANGED <<call, sideVars>>

\* CreateOrderUseCase.Execute on any request. dbOK tells whether the
\* transaction of EventStore.Save goes through; call records the request
\* and whether Execute returned nil.
CreateOrderExecute(o, fromAmount, orderType, dbOK) ==
    LET r     == AcceptOrder(NewOrder, fromAmount, orderType)
        saved == r.ok /\ dbOK /\ SaveAggregateOK(OrderAgg(o), r.agg, 0)
    IN  /\ ~dbOK => (r.ok /\ CanFault)
        /\ faults' = IF dbOK THEN faults ELSE faults + 1
        /\ IF saved
           THEN SaveAggregate(OrderAgg(o), r.agg, 0)
           ELSE UNCHANGED <<log, outbox, nextId>>
        /\ call' = [cmd |-> "CreateOrder", args |-> <<o, fromAmount, orderType>>,
                    ok |-> saved, pre |-> NewOrder,
                    o |-> IF saved THEN [r.agg EXCEPT !.changes = <<>>] ELSE r.agg,
                    ppre |-> NewPosition, p |-> NewPosition]
        /\ UNCHANGED <<processed, queue, wk, nextPos, pubSeq, swapCalls>>
        /\ UNCHANGED sideVars

\* ----------------------------------------------------------- outbox relay
Unpublished == SelectSeq([i \in DOMAIN outbox |-> i], LAMBDA i : ~outbox[i].published)

FirstN(s, n) == IF Len(s) <= n THEN s ELSE SubSeq(s, 1, n)

\* SELECT ... WHERE published = false ORDER BY created_at ASC LIMIT 100.
RelayBatch == FirstN(Unpublished, RelayBatchLimit)

RECURSIVE PublishAll(_, _)
PublishAll(q, msgs) ==
    IF msgs = <<>> THEN q ELSE PublishAll(Publish(q, Head(msgs)), Tail(msgs))

\* markAsPublished deleting the rows instead of flagging them.
MarkAsPublished_Deletes(rows, ids) ==
    SelectSeq(rows, LAMBDA r : \A i \in ids : rows[i] # r)

\* markAsPublished flagging every row of the table.
MarkAsPublished_All(rows, ids) ==
    [i \in DOMAIN rows |-> [rows[i] EXCEPT !.published = TRUE]]

\* markAsPublished: UPDATE outbox SET published = true WHERE id = ANY(ids).
MarkAsPublished(rows, ids) ==
    [i \in DOMAIN rows |->
        IF i \in ids THEN [rows[i] EXCEPT !.published = TRUE] ELSE rows[i]]

\* A cycle that flags nothing once a Publish call has failed.
RelayRun_NoMarkAfterFailure(failed, cut, markOK) ==
    LET batch == RelayBatch
        sent  == SelectSeq(SubSeq(batch, 1, cut),
                           LAMBDA i : \A k \in failed : batch[k] # i)
        msgs  == [k \in DOMAIN sent |-> RowMessage(outbox[sent[k]])]
    IN  /\ queue' = PublishAll(queue, msgs)
        /\ pubSeq' = pubSeq \o [k \in DOMAIN sent |-> outbox[sent[k]].id]
        /\ outbox' = IF cut = Len(batch) /\ markOK /\ failed = {}
                     THEN MarkAsPublished(outbox, Range(sent))
                     ELSE outbox

\* One cycle of publishPendingEvents over the selected rows. The loop
\* reaches the first `cut` rows (all of them unless the process stops);
\* the Publish of the rows at the batch positions in `failed` returns an
\* error and the row is skipped; the others are published in order and
\* collected in publishedIDs; markAsPublished runs when the loop ended
\* and publishedIDs is not empty, and takes effect when `markOK`.
RelayRun(failed, cut, markOK) ==
    LET batch == RelayBatch
        sent  == SelectSeq(SubSeq(batch, 1, cut),
                           LAMBDA i : \A k \in failed : batch[k] # i)
        msgs  == [k \in DOMAIN sent |-> RowMessage(outbox[sent[k]])]
    IN  /\ queue' = PublishAll(queue, msgs)
        /\ pubSeq' = pubSeq \o [k \in DOMAIN sent |-> outbox[sent[k]].id]
        /\ outbox' = IF cut = Len(batch) /\ markOK
                     THEN MarkAsPublished(outbox, Range(sent))
                     ELSE outbox

\* A cycle in which nothing goes wrong.
RelayCycle ==
    /\ RelayBatch # <<>>
    /\ RelayRun({}, Len(RelayBatch), TRUE)
    /\ UNCHANGED <<log, processed, wk, nextId, nextPos, faults, swapCalls>>
    /\ UNCHANGED <<call, sideVars>>

\* A cycle with failed Publish calls, a failed markAsPublished, or a stop
\* of the relay process after `cut` rows (it is restarted afterwards).
RelayFaultyCycle ==
    /\ CanFault
    /\ RelayBatch # <<>>
    /\ \E failed \in SUBSET (DOMAIN RelayBatch), cut \in 1..Len(RelayBatch),
          markOK \in BOOLEAN :
        LET cost == Cardinality(failed)
                    + (IF cut < Len(RelayBatch) THEN 1 ELSE 0)
                    + (IF markOK THEN 0 ELSE 1)
        IN  /\ cost > 0
            /\ faults + cost <= MaxFaults
            /\ \A k \in failed : k <= cut
            /\ cut < Len(RelayBatch) => markOK
            /\ faults' = faults + cost
            /\ RelayRun(failed, cut, markOK)
    /\ UNCHANGED <<log, processed, wk, nextId, nextPos, swapCalls>>
    /\ UNCHANGED <<call, sideVars>>

\* -------------------------------------------------------------- consumers
\* Subscribe's loop: the handler runs on one delivery; nil is acked, an
\* error is nacked with requeue.
Ack(w) == wk' = [wk EXCEPT ![w] = IdleWorker]

\* Nack without requeue.
Requeue_Drops(q, w) == q

\* A delivery the broker has already taken back is not requeued again.
Requeue(q, w) == IF wk[w].lost THEN q ELSE q (+) SetToBag({wk[w].msg})

Nack(w) ==
    /\ wk' = [wk EXCEPT ![w] = IdleWorker]
    /\ queue' = Requeue(queue, w)

Goto(w, pc) == wk' = [wk EXCEPT ![w].pc = pc]

\* The Publish call of a handler returned nil; MarkAsProcessed is next.
Published(w) == wk' = [wk EXCEPT ![w].pc = "mark", ![w].sent = TRUE]

\* The broker hands message m to consumer w, which calls the handler.
Deliver(w, m) ==
    /\ wk[w].pc = "idle"
    /\ \A v \in Workers : v < w => wk[v].pc # "idle"
    /\ m \in BagToSet(queue)
    /\ queue' = queue (-) SetToBag({m})
    /\ wk' = [wk EXCEPT ![w] = [IdleWorker EXCEPT !.pc = "check", !.msg = m,
                                   !.dup = m.id \in processed]]
    /\ UNCHANGED <<log, outbox, processed, nextId, nextPos, faults,
                   pubSeq, swapCalls>>
    /\ UNCHANGED <<call, sideVars>>

Receive(w) == \E m \in BagToSet(queue) : Deliver(w, m)

FirstPc(m) ==
    CASE m.key = "OrderAccepted"           -> "s1_price"
      [] m.key = "PriceQuoted"             -> "s2_load"
      [] m.key = "PositionCreatedForOrder" -> "s3_load"
      [] m.key = "SwapExecuted"            -> "s4_oload"

\* What follows the idempotency check of a handler when the event counts
\* as not processed; handleSwapExecuted first reads position_id from the
\* metadata and returns an error without it.
Proceed(w) ==
    IF wk[w].msg.key = "SwapExecuted" /\ wk[w].msg.pos = 0
    THEN Nack(w)
    ELSE Goto(w, FirstPc(wk[w].msg)) /\ UNCHANGED queue

\* ProcessedEventsRepository.IsProcessed answers.
IsProcessed(w) ==
    /\ wk[w].pc = "check"
    /\ IF wk[w].msg.id \in processed
       THEN Ack(w) /\ UNCHANGED queue
       ELSE Proceed(w)
    /\ UNCHANGED <<log, outbox, processed, nextId, nextPos, faults,
                   pubSeq, swapCalls>>
    /\ UNCHANGED <<call, sideVars>>

\* IsProcessed returns (false, err); the saga handlers drop the error and
\* go on as for an event that was not processed.
IsProcessedFails(w) ==
    /\ wk[w].pc = "check"
    /\ Proceed(w)
    /\ UNCHANGED <<log, outbox, processed, nextId, nextPos, faults,
                   pubSeq, swapCalls>>
    /\ UNCHANGED <<call, sideVars>>

\* MarkAsProcessed (ON CONFLICT DO NOTHING), then the handler returns nil.
MarkAsProcessed(w) ==
    /\ wk[w].pc = "mark"
    /\ processed' = processed \cup {wk[w].msg.id}
    /\ Ack(w)
    /\ UNCHANGED <<log, outbox, queue, nextId, nextPos, faults, pubSeq,
                   swapCalls>>
    /\ UNCHANGED <<call, sideVars>>

\* MarkAsProcessed returns an error; the saga handlers drop it.
MarkAsProcessedFails(w) ==
    /\ wk[w].pc = "mark"
    /\ CanFault
    /\ faults' = faults + 1
    /\ Ack(w)
    /\ UNCHANGED <<log, outbox, processed, queue, nextId, nextPos, pubSeq,
                   swapCalls>>
    /\ UNCHANGED <<call, sideVars>>

\* A Publish call of a saga handler fails; its result is not read.
PublishFails(w) ==
    /\ wk[w].pc \in {"s2_pub", "s3_pub", "s4_pub"}
    /\ CanFault
    /\ faults' = faults + 1
    /\ Goto(w, "mark")
    /\ UNCHANGED <<log, outbox, processed, queue, nextId, nextPos, pubSeq,
                   swapCalls>>
    /\ UNCHANGED <<call, sideVars>>

\* The consumer stops inside a handler (process stop, cancellation, panic,
\* a store call that times out): the unacked delivery returns to its queue.
Crash(w) ==
    /\ wk[w].pc # "idle"
    /\ CanFault
    /\ faults' = faults + 1
    /\ Nack(w)
    /\ UNCHANGED <<log, outbox, processed, nextId, nextPos, pubSeq,
                   swapCalls>>
    /\ UNCHANGED <<call, sideVars>>

\* The consumer's channel drops while its handler runs on: the broker
\* requeues the unacked delivery, and the handler's later ack or nack has
\* no effect.
Redeliver(w) ==
    /\ wk[w].pc # "idle"
    /\ ~wk[w].lost
    /\ CanFault
    /\ faults' = faults + 1
    /\ queue' = queue (+) SetToBag({wk[w].msg})
    /\ wk' = [wk EXCEPT ![w].lost = TRUE]
    /\ UNCHANGED <<log, outbox, processed, nextId, nextPos, pubSeq, swapCalls>>
    /\ UNCHANGED <<call, sideVars>>

\* A step that loads, runs a command and goes on to its save, or returns
\* the error.
OrderStep(w, r, pc) ==
    IF r.ok
    THEN wk' = [wk EXCEPT ![w].pc = pc, ![w].o = r.agg] /\ UNCHANGED queue
    ELSE Nack(w)

\* A failed load or command that ends the handler without an error.
PositionStep_Acks(w, r, pc) ==
    IF r.ok
    THEN wk' = [wk EXCEPT ![w].pc = pc, ![w].p = r.agg] /\ UNCHANGED queue
    ELSE Ack(w) /\ UNCHANGED queue

PositionStep(w, r, pc) ==
    IF r.ok
    THEN wk' = [wk EXCEPT ![w].pc = pc, ![w].p = r.agg] /\ UNCHANGED queue
    ELSE Nack(w)

\* SaveOrderAggregate on the worker's order; Changes are cleared on success.
SaveOrderStep(w, pc) ==
    LET o == wk[w].msg.agg IN
    /\ SaveAggregate(OrderAgg(o), wk[w].o, w)
    /\ IF SaveAggregateOK(OrderAgg(o), wk[w].o, w)
       THEN /\ IF pc = "idle" THEN Ack(w)
               ELSE wk' = [wk EXCEPT ![w].pc = pc, ![w].o.changes = <<>>]
            /\ UNCHANGED queue
       ELSE Nack(w)

SavePositionStep(w, k, pc) ==
    /\ SaveAggregate(PositionAgg(k), wk[w].p, w)
    /\ IF SaveAggregateOK(PositionAgg(k), wk[w].p, w)
       THEN /\ IF pc = "idle" THEN Ack(w)
               ELSE wk' = [wk EXCEPT ![w].pc = pc, ![w].p.changes = <<>>,
                                     ![w].pos = k]
            /\ UNCHANGED queue
       ELSE Nack(w)

\* ---------------------------------------------- compensateOrderFailed
\* compensateOrderFailed not passing its reason on.
CompensateLoad_DropsReason(w, reason) ==
    LET r == LoadOrderAggregate(wk[w].msg.agg) IN
    OrderStep(w, IF r.ok THEN FailOrder(r.agg, "") ELSE r, "c_osave")

\* Load, FailOrder(reason); the save is the next step.
CompensateLoad(w, reason) ==
    LET r == LoadOrderAggregate(wk[w].msg.agg) IN
    OrderStep(w, IF r.ok THEN FailOrder(r.agg, reason) ELSE r, "c_osave")

\* The swap failure compensated by compensateOrderFailed alone.
Comp_SaveOrder_SkipsPosition(w) ==
    /\ wk[w].pc = "c_osave"
    /\ SaveOrderStep(w, "idle")
    /\ UNCHANGED <<processed, nextPos, faults, pubSeq, swapCalls>>
    /\ UNCHANGED <<call, sideVars>>

Comp_SaveOrder(w) ==
    /\ wk[w].pc = "c_osave"
    /\ SaveOrderStep(w, IF wk[w].msg.key = "PositionCreatedForOrder"
                        THEN "c_pload" ELSE "idle")
    /\ UNCHANGED <<processed, nextPos, faults, pubSeq, swapCalls>>
    /\ UNCHANGED <<call, sideVars>>

\* ----------------------------------------------- compensateSwapFailed
Comp_LoadPosition(w) ==
    /\ wk[w].pc = "c_pload"
    /\ LET r == LoadPositionAggregate(wk[w].msg.pos) IN
        PositionStep(w, IF r.ok THEN ClosePosition(r.agg, "order_failed") ELSE r, "c_psave")
    /\ UNCHANGED <<log, outbox, processed, nextId, nextPos, faults,
                   pubSeq, swapCalls>>
    /\ UNCHANGED <<call, sideVars>>

Comp_SavePosition(w) ==
    /\ wk[w].pc = "c_psave"
    /\ SavePositionStep(w, wk[w].msg.pos, "idle")
    /\ UNCHANGED <<processed, nextPos, faults, pubSeq, swapCalls>>
    /\ UNCHANGED <<call, sideVars>>

\* ------------------------------------- STEP 1: handleOrderAccepted
PriceOf(o) == 2
FromAmountOf(o) == 1000

\* GetMarketPrice answers; load, QuotePrice(price, fromAmount / price).
Step1_Quote(w) ==
    /\ wk[w].pc = "s1_price"
    /\ LET o == wk[w].msg.agg
           r == LoadOrderAggregate(o) IN
        OrderStep(w, IF r.ok
                     THEN QuotePrice(r.agg, PriceOf(o), FromAmountOf(o) \div PriceOf(o))
                     ELSE r, "s1_save")
    /\ UNCHANGED <<log, outbox, processed, nextId, nextPos, faults,
                   pubSeq, swapCalls>>
    /\ UNCHANGED <<call, sideVars>>

\* GetMarketPrice returns an error: compensateOrderFailed.
Step1_PriceUnavailable(w) ==
    /\ wk[w].pc = "s1_price"
    /\ CompensateLoad(w, "price_unavailable")
    /\ UNCHANGED <<log, outbox, processed, nextId, nextPos, faults,
                   pubSeq, swapCalls>>
    /\ UNCHANGED <<call, sideVars>>

Step1_Save(w) ==
    /\ wk[w].pc = "s1_save"
    /\ SaveOrderStep(w, "mark")
    /\ UNCHANGED <<processed, nextPos, faults, pubSeq, swapCalls>>
    /\ UNCHANGED <<call, sideVars>>

\* ------------------------------------- STEP 2: handlePriceQuoted
\* Load the order (for its user), CreatePosition under a fresh id, save.
Step2_CreatePosition(w) ==
    /\ wk[w].pc = "s2_load"
    /\ LET r == LoadOrderAggregate(wk[w].msg.agg) IN
        IF r.ok
        THEN /\ SaveAggregate(PositionAgg(nextPos), CreatePosition(NewPosition).agg, w)
             /\ IF SaveAggregateOK(PositionAgg(nextPos),
                                   CreatePosition(NewPosition).agg, w)
                THEN /\ wk' = [wk EXCEPT ![w].pc = "s2_pub", ![w].o = r.agg,
                                          ![w].pos = nextPos]
                     /\ UNCHANGED queue
                ELSE Nack(w)
             /\ nextPos' = nextPos + 1
        ELSE Nack(w) /\ UNCHANGED <<log, outbox, nextId, nextPos>>
    /\ UNCHANGED <<processed, faults, pubSeq, swapCalls>>
    /\ UNCHANGED <<call, sideVars>>

\* Publish the synthetic PositionCreatedForOrder (fresh event id).
Step2_Publish(w) ==
    /\ wk[w].pc = "s2_pub"
    /\ queue' = Publish(queue, Message("PositionCreatedForOrder", nextId,
                                       wk[w].msg.agg, wk[w].msg.ver + 1, wk[w].pos))
    /\ nextId' = nextId + 1
    /\ Published(w)
    /\ UNCHANGED <<log, outbox, processed, nextPos, faults, pubSeq,
                   swapCalls>>
    /\ UNCHANGED <<call, sideVars>>

\* ------------------------------------- STEP 3: handlePositionCreated
Step3_Load(w) ==
    /\ wk[w].pc = "s3_load"
    /\ LET r == LoadOrderAggregate(wk[w].msg.agg) IN
        OrderStep(w, IF r.ok
                     THEN StartSwapExecution(r.agg,
                              generateIdempotencyKey(wk[w].msg.agg))
                     ELSE r, "s3_save")
    /\ UNCHANGED <<log, outbox, processed, nextId, nextPos, faults,
                   pubSeq, swapCalls>>
    /\ UNCHANGED <<call, sideVars>>

Step3_Save(w) ==
    /\ wk[w].pc = "s3_save"
    /\ SaveOrderStep(w, "s3_swap")
    /\ UNCHANGED <<processed, nextPos, faults, pubSeq, swapCalls>>
    /\ UNCHANGED <<call, sideVars>>

\* ExecuteSwap returns a response.
Step3_Swap(w) ==
    /\ wk[w].pc = "s3_swap"
    /\ swapCalls' = [swapCalls EXCEPT ![wk[w].msg.agg] = @ + 1]
    /\ Goto(w, "s3_reload")
    /\ UNCHANGED <<log, outbox, processed, queue, nextId, nextPos, faults,
                   pubSeq>>
    /\ UNCHANGED <<call, sideVars>>

\* ExecuteSwap returns an error: compensateSwapFailed.
Step3_SwapFails(w) ==
    /\ wk[w].pc = "s3_swap"
    /\ swapCalls' = [swapCalls EXCEPT ![wk[w].msg.agg] = @ + 1]
    /\ CompensateLoad(w, "swap_error")
    /\ UNCHANGED <<log, outbox, processed, nextId, nextPos, faults, pubSeq>>
    /\ UNCHANGED <<call, sideVars>>

\* Reload and RecordSwapExecution; neither error is read. A failed load
\* leaves a nil order, whose use stops the consumer.
Step3_Reload(w) ==
    /\ wk[w].pc = "s3_reload"
    /\ LET r == LoadOrderAggregate(wk[w].msg.agg) IN
        IF r.ok
        THEN /\ wk' = [wk EXCEPT ![w].pc = "s3_save2",
                                  ![w].o = RecordSwapExecution(r.agg).agg]
             /\ UNCHANGED queue
        ELSE Nack(w)
    /\ UNCHANGED <<log, outbox, processed, nextId, nextPos, faults,
                   pubSeq, swapCalls>>
    /\ UNCHANGED <<call, sideVars>>

Step3_SaveRecorded(w) ==
    /\ wk[w].pc = "s3_save2"
    /\ SaveOrderStep(w, "s3_pub")
    /\ UNCHANGED <<processed, nextPos, faults, pubSeq, swapCalls>>
    /\ UNCHANGED <<call, sideVars>>

\* Step 3 putting the position id of the consumer's last Step 2 in the
\* metadata instead of the one the event carries.
Step3_Publish_OwnPosition(w) ==
    /\ wk[w].pc = "s3_pub"
    /\ queue' = Publish(queue, Message("SwapExecuted", nextId, wk[w].msg.agg,
                                       wk[w].o.version, wk[w].pos))
    /\ nextId' = nextId + 1
    /\ Published(w)
    /\ UNCHANGED <<log, outbox, processed, nextPos, faults, pubSeq,
                   swapCalls>>
    /\ UNCHANGED <<call, sideVars>>

\* Publish the synthetic SwapExecuted with position_id in its metadata.
Step3_Publish(w) ==
    /\ wk[w].pc = "s3_pub"
    /\ queue' = Publish(queue, Message("SwapExecuted", nextId, wk[w].msg.agg,
                                       wk[w].o.version, wk[w].msg.pos))
    /\ nextId' = nextId + 1
    /\ Published(w)
    /\ UNCHANGED <<log, outbox, processed, nextPos, faults, pubSeq,
                   swapCalls>>
    /\ UNCHANGED <<call, sideVars>>

\* ------------------------- STEP 4: handleSwapExecuted and the use case
\* CompleteOrderAndUpdatePositionUseCase.Execute, lines 46-54.
Step4_LoadOrder(w) ==
    /\ wk[w].pc = "s4_oload"
    /\ LET r == LoadOrderAggregate(wk[w].msg.agg) IN
        OrderStep(w, IF r.ok THEN CompleteOrder(r.agg) ELSE r, "s4_pload")
    /\ UNCHANGED <<log, outbox, processed, nextId, nextPos, faults,
                   pubSeq, swapCalls>>
    /\ UNCHANGED <<call, sideVars>>

\* Execute, lines 57-68.
Step4_LoadPosition(w) ==
    /\ wk[w].pc = "s4_pload"
    /\ LET r == LoadPositionAggregate(wk[w].msg.pos) IN
        PositionStep(w, IF r.ok THEN AddOrder(r.agg, wk[w].msg.agg) ELSE r, "s4_osave")
    /\ UNCHANGED <<log, outbox, processed, nextId, nextPos, faults,
                   pubSeq, swapCalls>>
    /\ UNCHANGED <<call, sideVars>>

\* Execute, lines 71-73.
Step4_SaveOrder(w) ==
    /\ wk[w].pc = "s4_osave"
    /\ SaveOrderStep(w, "s4_psave")
    /\ UNCHANGED <<processed, nextPos, faults, pubSeq, swapCalls>>
    /\ UNCHANGED <<call, sideVars>>

\* Execute, lines 76-78.
Step4_SavePosition(w) ==
    /\ wk[w].pc = "s4_psave"
    /\ SavePositionStep(w, wk[w].msg.pos, "s4_pub")
    /\ UNCHANGED <<processed, nextPos, faults, pubSeq, swapCalls>>
    /\ UNCHANGED <<call, sideVars>>

\* Publish PositionLinkedToOrder (no queue is bound to it).
Step4_Publish(w) ==
    /\ wk[w].pc = "s4_pub"
    /\ queue' = Publish(queue, Message("PositionLinkedToOrder", nextId,
                                       wk[w].msg.agg, wk[w].msg.ver + 1, wk[w].msg.pos))
    /\ nextId' = nextId + 1
    /\ Published(w)
    /\ UNCHANGED <<log, outbox, processed, nextPos, faults, pubSeq,
                   swapCalls>>
    /\ UNCHANGED <<call, sideVars>>

\* ------------------------------------------------------- specification
\* The steps of a handler past the delivery, when the price and swap
\* calls answer.
Work(w) ==
    \/ IsProcessed(w)
    \/ MarkAsProcessed(w)
    \/ Step1_Quote(w)
    \/ Step1_Save(w)
    \/ Step2_CreatePosition(w)
    \/ Step2_Publish(w)
    \/ Step3_Load(w)
    \/ Step3_Save(w)
    \/ Step3_Swap(w)
    \/ Step3_Reload(w)
    \/ Step3_SaveRecorded(w)
    \/ Step3_Publish(w)
    \/ Step4_LoadOrder(w)
    \/ Step4_LoadPosition(w)
    \/ Step4_SaveOrder(w)
    \/ Step4_SavePosition(w)
    \/ Step4_Publish(w)

\* A price or swap call returns an error, and the compensation it starts.
Compensation(w) ==
    \/ Step1_PriceUnavailable(w)
    \/ Step3_SwapFails(w)
    \/ Comp_SaveOrder(w)
    \/ Comp_LoadPosition(w)
    \/ Comp_SavePosition(w)

\* The steps of a consumer when no call fails unexpectedly.
Handler(w) == Receive(w) \/ Work(w) \/ Compensation(w)

\* Failures on the consumer side.
ConsumerFault(w) ==
    \/ IsProcessedFails(w)
    \/ MarkAsProcessedFails(w)
    \/ PublishFails(w)
    \/ Crash(w)
    \/ Redeliver(w)

Next ==
    \/ \E o \in Orders : CreateOrder(o)
    \/ RelayCycle
    \/ RelayFaultyCycle
    \/ \E w \in Workers : Handler(w) \/ ConsumerFault(w)

Spec == Init /\ [][Next]_vars

\* The relay next to a single consumer, when only the relay and the bus
\* fail. The relay's ticker keeps firing: a cycle that can run without a
\* failure eventually runs.
RelayNext ==
    \/ \E o \in Orders : CreateOrder(o)
    \/ RelayCycle
    \/ RelayFaultyCycle
    \/ Handler(1)

RelaySpec == Init /\ [][RelayNext]_vars /\ WF_vars(RelayCycle)

\* The relay's copy of SwapExecuted carries no position_id: its handler
\* returns an error on every delivery.
Rejected(m) == m.key = "SwapExecuted" /\ m.pos = 0

\* Scheduling of the running processes: the API and the relay's ticker
\* keep going, the handlers that were called run on, and a queue delivers
\* in order, so that a message is not overtaken for ever by a requeued one.
Fairness(W) ==
    /\ WF_vars((\E o \in Orders : CreateOrder(o)) \/ RelayCycle)
    /\ WF_vars(\E w \in W : ~Rejected(wk[w].msg) /\ (Work(w) \/ Compensation(w)))
    /\ WF_vars(\E w \in W : Rejected(wk[w].msg) /\ Work(w))
    /\ SF_vars(\E w \in W : \E m \in BagToSet(queue) : ~Rejected(m) /\ Deliver(w, m))

\* The saga when no call fails unexpectedly; price and swap calls may
\* return errors.
SagaNext ==
    \/ \E o \in Orders : CreateOrder(o)
    \/ RelayCycle
    \/ \E w \in Workers : Handler(w)

SagaSpec == Init /\ [][SagaNext]_vars /\ Fairness(Workers)

\* The saga when every call answers.
HappyNext ==
    \/ \E o \in Orders : CreateOrder(o)
    \/ RelayCycle
    \/ \E w \in Workers : Receive(w) \/ Work(w)

HappySpec == Init /\ [][HappyNext]_vars /\ Fairness(Workers)

\* One consumer that may stop inside a handler and is restarted.
ReplayNext ==
    \/ \E o \in Orders : CreateOrder(o)
    \/ RelayCycle
    \/ Handler(1)
    \/ Crash(1)

ReplaySpec == Init /\ [][ReplayNext]_vars /\ Fairness({1})

\* ------------------------------------------------- aggregate commands
\* A caller invokes commands on an Order, or on a Position, that it holds
\* in memory; call records the command, its arguments, whether it returned
\* nil, and the aggregate before and after it.
FromAmounts == {0, 5, 1000}
OrderTypes == {"market", "limit", "stop"}
Prices == {0, 100}
Balances == {0, 1000}
FilledAmounts == {0, 500, 2000}
UpdatedAmounts == {0, 500}

OrderCall(cmd, args, r) ==
    /\ call.p = NewPosition
    /\ Len(call.o.changes) < MaxChanges
    /\ call' = [cmd |-> cmd, args |-> args, ok |-> r.ok, pre |-> call.o, o |-> r.agg,
                ppre |-> call.p, p |-> call.p]
    /\ UNCHANGED sagaVars
    /\ UNCHANGED sideVars

PositionCall(cmd, args, r) ==
    /\ call.o = NewOrder
    /\ Len(call.p.changes) < MaxChanges
    /\ call' = [cmd |-> cmd, args |-> args, ok |-> r.ok, pre |-> call.o, o |-> call.o,
                ppre |-> call.p, p |-> r.agg]
    /\ UNCHANGED sagaVars
    /\ UNCHANGED sideVars

Call_AcceptOrder ==
    \E a \in FromAmounts, t \in OrderTypes :
        OrderCall("AcceptOrder", <<a, t>>, AcceptOrder(call.o, a, t))

Call_QuotePrice ==
    \E price \in Prices, toAmount \in Prices :
        OrderCall("QuotePrice", <<price, toAmount>>,
                  QuotePrice(call.o, price, toAmount))

Call_StartSwapExecution ==
    OrderCall("StartSwapExecution", <<>>,
              StartSwapExecution(call.o, generateIdempotencyKey(1)))

Call_RecordSwapExecution ==
    OrderCall("RecordSwapExecution", <<>>, RecordSwapExecution(call.o))

Call_CompleteOrder == OrderCall("CompleteOrder", <<>>, CompleteOrder(call.o))

Call_FailOrder ==
    OrderCall("FailOrder", <<"swap_error">>, FailOrder(call.o, "swap_error"))

Call_InitializeOrder ==
    OrderCall("InitializeOrder", <<>>, InitializeOrder(call.o))

Call_SetLimitPrice ==
    \E limitPrice \in Prices :
        OrderCall("SetLimitPrice", <<limitPrice>>, SetLimitPrice(call.o, limitPrice))

Call_UpdateOrder ==
    \E a \in UpdatedAmounts :
        OrderCall("UpdateOrder", <<a>>, UpdateOrder(call.o, a))

Call_CancelOrder ==
    OrderCall("CancelOrder", <<"user_request">>,
              CancelOrder(call.o, "user_request"))

Call_CheckBalances ==
    \E availableBalance \in Balances :
        OrderCall("CheckBalances", <<availableBalance>>,
                  CheckBalances(call.o, availableBalance))

Call_PlaceInOrderBook ==
    OrderCall("PlaceInOrderBook", <<>>, PlaceInOrderBook(call.o))

Call_PartiallyFill ==
    \E filledAmount \in FilledAmounts :
        OrderCall("PartiallyFill", <<filledAmount>>,
                  PartiallyFill(call.o, filledAmount))

\* CreatePosition is called on position.NewPosition() only.
Call_CreatePosition ==
    /\ call.p = NewPosition
    /\ PositionCall("CreatePosition", <<>>, CreatePosition(call.p))

Call_AddOrder ==
    \E o \in Orders : PositionCall("AddOrder", <<o>>, AddOrder(call.p, o))

Call_ClosePosition ==
    PositionCall("ClosePosition", <<"order_failed">>,
                 ClosePosition(call.p, "order_failed"))

CallNext ==
    \/ Call_AcceptOrder
    \/ Call_QuotePrice
    \/ Call_StartSwapExecution
    \/ Call_RecordSwapExecution
    \/ Call_CompleteOrder
    \/ Call_FailOrder
    \/ Call_InitializeOrder
    \/ Call_SetLimitPrice
    \/ Call_UpdateOrder
    \/ Call_CancelOrder
    \/ Call_CheckBalances
    \/ Call_PlaceInOrderBook
    \/ Call_PartiallyFill
    \/ Call_CreatePosition
    \/ Call_AddOrder
    \/ Call_ClosePosition

CallSpec == Init /\ [][CallNext]_vars

\* ------------------------------------------ aggregates through the store
\* The caller saves the aggregate it holds through the AggregateStore and
\* loads it again; the Order is order 1 and the Position is position 1.
\* SaveOrderAggregate keeping the uncommitted list after a successful append.
Call_SaveOrderAggregate_KeepsChanges ==
    LET ok == SaveAggregateOK(OrderAgg(1), call.o, 0) IN
    /\ call.p = NewPosition
    /\ Len(log) + Len(call.o.changes) <= MaxStored
    /\ SaveAggregate(OrderAgg(1), call.o, 0)
    /\ call' = [cmd |-> "SaveOrderAggregate", args |-> <<>>, ok |-> ok,
                pre |-> call.o, o |-> call.o, ppre |-> call.p, p |-> call.p]
    /\ UNCHANGED <<processed, queue, wk, nextPos, faults, pubSeq, swapCalls>>
    /\ UNCHANGED sideVars

Call_SaveOrderAggregate ==
    LET ok == SaveAggregateOK(OrderAgg(1), call.o, 0) IN
    /\ call.p = NewPosition
    /\ Len(log) + Len(call.o.changes) <= MaxStored
    /\ SaveAggregate(OrderAgg(1), call.o, 0)
    /\ call' = [cmd |-> "SaveOrderAggregate", args |-> <<>>, ok |-> ok,
                pre |-> call.o,
                o |-> IF ok THEN [call.o EXCEPT !.changes = <<>>] ELSE call.o,
                ppre |-> call.p, p |-> call.p]
    /\ UNCHANGED <<processed, queue, wk, nextPos, faults, pubSeq, swapCalls>>
    /\ UNCHANGED sideVars

Call_LoadOrderAggregate ==
    LET r == LoadOrderAggregate(1) IN
    /\ call.p = NewPosition
    /\ call' = [cmd |-> "LoadOrderAggregate", args |-> <<>>, ok |-> r.ok,
                pre |-> call.o, o |-> IF r.ok THEN r.agg ELSE call.o,
                ppre |-> call.p, p |-> call.p]
    /\ UNCHANGED sagaVars
    /\ UNCHANGED sideVars

Call_SavePositionAggregate ==
    LET ok == SaveAggregateOK(PositionAgg(1), call.p, 0) IN
    /\ call.o = NewOrder
    /\ Len(log) + Len(call.p.changes) <= MaxStored
    /\ SaveAggregate(PositionAgg(1), call.p, 0)
    /\ call' = [cmd |-> "SavePositionAggregate", args |-> <<>>, ok |-> ok,
                pre |-> call.o, o |-> call.o, ppre |-> call.p,
                p |-> IF ok THEN [call.p EXCEPT !.changes = <<>>] ELSE call.p]
    /\ UNCHANGED <<processed, queue, wk, nextPos, faults, pubSeq, swapCalls>>
    /\ UNCHANGED sideVars

Call_LoadPositionAggregate ==
    LET r == LoadPositionAggregate(1) IN
    /\ call.o = NewOrder
    /\ call' = [cmd |-> "LoadPositionAggregate", args |-> <<>>, ok |-> r.ok,
                pre |-> call.o, o |-> call.o, ppre |-> call.p,
                p |-> IF r.ok THEN r.agg ELSE call.p]
    /\ UNCHANGED sagaVars
    /\ UNCHANGED sideVars

\* A command on the held aggregate, while the stream and the uncommitted
\* list together stay within MaxStored events.
Call_Command ==
    /\ CallNext
    /\ Len(log) + Len(call'.o.changes) + Len(call'.p.changes) <= MaxStored

StoreNext ==
    \/ Call_Command
    \/ Call_SaveOrderAggregate
    \/ Call_LoadOrderAggregate
    \/ Call_SavePositionAggregate
    \/ Call_LoadPositionAggregate

StoreSpec == Init /\ [][StoreNext]_vars

\* The API accepting any request, with the relay and one consumer.
CreateNext ==
    \/ \E o \in Orders, a \in FromAmounts, t \in OrderTypes, dbOK \in BOOLEAN :
           CreateOrderExecute(o, a, t, dbOK)
    \/ RelayCycle
    \/ Handler(1)

CreateSpec == Init /\ [][CreateNext]_vars

\* ------------------------------------------------- notification service
\* The terminal events whose messages reach the notification queues.
NotifyEvents ==
    {Message("OrderCompleted", 1, 1, 4, 0), Message("OrderFailed", 2, 2, 2, 0)}

NotifyFrame ==
    UNCHANGED <<log, outbox, queue, wk, nextId, nextPos, faults, pubSeq,
                swapCalls, call, book>>

\* The relay publishes a terminal event, possibly once more.
Notify_Publish(m) ==
    /\ notif.published < MaxNotifyMsgs
    /\ notif' = [notif EXCEPT !.queue = @ (+) SetToBag({m}),
                              !.published = @ + 1]
    /\ UNCHANGED processed
    /\ NotifyFrame

\* The consumer of queue.<k> takes a message and calls the handler.
Notify_Receive(k) ==
    /\ notif.c[k].pc = "idle"
    /\ \E m \in BagToSet(notif.queue) :
          /\ m.key = k
          /\ notif' = [notif EXCEPT !.queue = @ (-) SetToBag({m}),
                                    !.c[k] = [pc |-> "check", msg |-> m]]
    /\ UNCHANGED processed
    /\ NotifyFrame

\* The handler returned nil: Ack.
Notify_Ack(k) == [notif EXCEPT !.c[k] = [pc |-> "idle", msg |-> NoMsg]]

\* IsProcessed that answers false whatever is recorded.
Notify_IsProcessed_Ignored(k) ==
    /\ notif.c[k].pc = "check"
    /\ notif' = [notif EXCEPT !.c[k].pc = "load"]
    /\ UNCHANGED processed
    /\ NotifyFrame

\* IsProcessed answered: skip when the event_id is recorded.
Notify_IsProcessed(k) ==
    /\ notif.c[k].pc = "check"
    /\ notif' = IF notif.c[k].msg.id \in processed
                THEN Notify_Ack(k)
                ELSE [notif EXCEPT !.c[k].pc = "load"]
    /\ UNCHANGED processed
    /\ NotifyFrame

\* orderRepo.Get returned the order.
Notify_Get(k) ==
    /\ notif.c[k].pc = "load"
    /\ notif' = [notif EXCEPT !.c[k].pc = "send"]
    /\ UNCHANGED processed
    /\ NotifyFrame

\* notifier.SendMessage returned nil.
Notify_Send(k) ==
    /\ notif.c[k].pc = "send"
    /\ notif' = [notif EXCEPT
                    !.c[k].pc = "mark",
                    !.calls = Append(@, [id |-> notif.c[k].msg.id, ok |-> TRUE])]
    /\ UNCHANGED processed
    /\ NotifyFrame

\* MarkAsProcessed returned nil, and so does the handler.
Notify_Mark(k) ==
    /\ notif.c[k].pc = "mark"
    /\ processed' = processed \cup {notif.c[k].msg.id}
    /\ notif' = Notify_Ack(k)
    /\ NotifyFrame

\* The call the handler is at returns an error (for SendMessage after the
\* notifier was invoked): the handler returns it and Subscribe requeues
\* the message.
Notify_Fails(k) ==
    /\ notif.c[k].pc \in {"check", "load", "send", "mark"}
    /\ notif.faults < MaxNotifyFaults
    /\ notif' = [notif EXCEPT
                    !.queue = @ (+) SetToBag({notif.c[k].msg}),
                    !.c[k] = [pc |-> "idle", msg |-> NoMsg],
                    !.faults = @ + 1,
                    !.calls = IF notif.c[k].pc = "send"
                              THEN Append(@, [id |-> notif.c[k].msg.id,
                                              ok |-> FALSE])
                              ELSE @]
    /\ UNCHANGED processed
    /\ NotifyFrame

NotifyNext ==
    \/ \E m \in NotifyEvents : Notify_Publish(m)
    \/ \E k \in NotifyKeys :
          \/ Notify_Receive(k)
          \/ Notify_IsProcessed(k)
          \/ Notify_Get(k)
          \/ Notify_Send(k)
          \/ Notify_Mark(k)
          \/ Notify_Fails(k)

NotifySpec == Init /\ [][NotifyNext]_vars

\* ------------------------------------------------- OrderBook commands
\* A caller invokes a command on the OrderBook it holds; results are the
\* outcomes the command can have.
BookCall(cmd, args, results) ==
    /\ Len(book.ob.changes) < MaxBookEvents
    /\ \E r \in results :
          book' = [cmd |-> cmd, args |-> args, ok |-> r.ok, pre |-> book.ob,
                   ob |-> r.agg]
    /\ UNCHANGED <<sagaVars, call, notif>>

\* The arguments of AddLimitOrder: every valid order of the bounds, and
\* one with each invalid argument.
BookAdds ==
    {<<orderID, 10 * p, amount, side>> :
        orderID \in 1..MaxBookIds, p \in 1..MaxBookPrice,
        amount \in 1..MaxBookAmount, side \in {"buy", "sell"}}
    \cup {<<1, 0, 1, "buy">>, <<1, 10, 0, "sell">>, <<1, 10, 1, "hold">>}

BookNext ==
    \/ BookCall("CreateOrderBook", <<>>, CreateOrderBook(book.ob))
    \/ \E a \in BookAdds :
          BookCall("AddLimitOrder", a,
                   AddLimitOrder(book.ob, a[1], a[2], a[3], a[4]))
    \/ BookCall("MatchOrders", <<>>, MatchOrders(book.ob))
    \/ \E orderID \in 1..MaxBookIds, side \in {"buy", "sell"} :
          BookCall("CancelLimitOrder", <<orderID, side>>,
                   CancelLimitOrder(book.ob, orderID, side))

BookSpec == Init /\ [][BookNext]_vars

\* ------------------------------------------------------------ properties
EventsOfType(aggId, type) ==
    {e \in Range(log) : e.agg = aggId /\ e.type = type}

\* The PositionUpdated events that add order o to a position.
LinkedTo(o) == {e \in Range(log) : e.type = "PositionUpdated" /\ e.ref = o}

EventOf(id) == CHOOSE e \in Range(log) : e.id = id

\* C1: OrderCompleted and PositionUpdated of a completion are committed by
\* one append, so in every reachable state the log holds both of them or
\* neither.
C1_AtomicCompletion ==
    \A o \in Orders :
        (EventsOfType(OrderAgg(o), "OrderCompleted") # {}) <=> (LinkedTo(o) # {})

\* C2: when workers run the completion of the same order and position, at
\* most one OrderCompleted and at most one PositionUpdated are ever
\* committed for the pair, and both are committed by the same worker.
C2_OneCompletionByOneWorker ==
    \A o \in Orders :
        /\ Cardinality(EventsOfType(OrderAgg(o), "OrderCompleted")) <= 1
        /\ Cardinality(LinkedTo(o)) <= 1
        /\ \A c \in EventsOfType(OrderAgg(o), "OrderCompleted") :
               \A u \in LinkedTo(o) : c.by = u.by

\* C3: a message delivered twice to its saga handler leaves the streams as
\* one delivery leaves them: an order is quoted once and there is no more
\* than one position per accepted order.
C3_TwiceAsOnce ==
    /\ \A o \in Orders :
           Cardinality(EventsOfType(OrderAgg(o), "PriceQuoted")) <= 1
    /\ Cardinality({e \in Range(log) : e.type = "PositionCreated"})
           <= Cardinality({e \in Range(log) : e.type = "OrderAccepted"})

\* C4: a handler that received an event whose id was already in the
\* processed set appends no event and calls no external service in any of
\* its steps.
C4_ProcessedOnlyAcks ==
    [][\A w \in Workers :
          (wk[w].dup /\ wk'[w] # wk[w])
              => (log' = log /\ swapCalls' = swapCalls)]_vars

\* C5: the committed versions of every aggregate are exactly 1..N, without
\* a gap.
C5_NoVersionGap ==
    \A a \in {e.agg : e \in Range(log)} :
        LET S == {i \in DOMAIN log : log[i].agg = a}
        IN  {log[i].ver : i \in S} = 1..Cardinality(S)

\* C5 witness: a completed order (five events) and its updated position.
C5_Witness ==
    \E o \in Orders :
        /\ Len(EventStoreLoad(OrderAgg(o))) >= 5
        /\ \E e \in LinkedTo(o) : e.ver = 2

KeysUnique(rows) ==
    \A i, j \in DOMAIN rows :
        i # j => /\ rows[i].id # rows[j].id
                 /\ <<rows[i].agg, rows[i].ver>> # <<rows[j].agg, rows[j].ver>>

UsedKey(aggId, changes) ==
    \E i \in DOMAIN changes : \E e \in Range(log) :
        e.agg = aggId /\ e.ver = changes[i].ver

\* Worker w is about to append events under a key the log already holds.
StaleSave(w) ==
    \/ /\ wk[w].pc \in {"s1_save", "s3_save", "s3_save2", "s4_osave", "c_osave"}
       /\ UsedKey(OrderAgg(wk[w].msg.agg), wk[w].o.changes)
    \/ /\ wk[w].pc \in {"s4_psave", "c_psave"}
       /\ UsedKey(PositionAgg(wk[w].msg.pos), wk[w].p.changes)

\* C6: no two committed events share (aggregate_id, version) or event_id,
\* and the step of a worker whose append holds a used key commits nothing.
C6_UniqueKeys ==
    [][/\ log' # log => KeysUnique(log')
       /\ \A w \in Workers :
              (StaleSave(w) /\ wk'[w] # wk[w])
                  => (log' = log /\ outbox' = outbox)]_vars

\* C6 witness: a worker holds an append under a version another worker
\* has committed in the meantime.
C6_Witness ==
    \E w \in Workers : StaleSave(w) /\ Len(log) >= 2

\* C7: the outbox holds exactly one row per committed event, in commit
\* order, and no other row.
C7_OneOutboxRowPerEvent ==
    /\ Len(outbox) = Len(log)
    /\ \A i \in DOMAIN log :
           /\ outbox[i].id = log[i].id
           /\ outbox[i].agg = log[i].agg
           /\ outbox[i].type = log[i].type
           /\ outbox[i].ver = log[i].ver
    /\ \A i, j \in DOMAIN outbox : i # j => outbox[i].id # outbox[j].id

\* C7 witness: published and unpublished rows next to a rejected append.
C7_Witness ==
    /\ \E i \in DOMAIN outbox : outbox[i].published
    /\ \E i \in DOMAIN outbox : ~outbox[i].published
    /\ \E w \in Workers : StaleSave(w)

Republished == \E i, j \in DOMAIN pubSeq : i < j /\ pubSeq[i] = pubSeq[j]

AllPublished ==
    \A i \in DOMAIN outbox :
        outbox[i].published /\ outbox[i].id \in Range(pubSeq)

\* C8: under a relay that keeps cycling and a bus that eventually accepts,
\* every committed event is eventually published at least once and its
\* outbox row eventually has published = true: again and again every row
\* of the outbox is flagged and has been published.
C8_EventuallyPublished == []<>AllPublished

\* C8 witness: every row is flagged after a cycle that failed, and some
\* event went out twice.
C8_Witness ==
    /\ faults > 0
    /\ Len(outbox) >= 2
    /\ AllPublished
    /\ Republished

\* C9: the relay's first publication of an event comes after the first
\* publication of every lower-version event of the same aggregate.
C9_PublishedInVersionOrder ==
    \A i \in DOMAIN pubSeq :
        \A e \in Range(log) :
            (e.agg = EventOf(pubSeq[i]).agg /\ e.ver < EventOf(pubSeq[i]).ver)
                => \E j \in 1..(i - 1) : pubSeq[j] = e.id

\* C10: when the relay has published an event again (it stopped between
\* the publish and the mark), the streams are those of one publication:
\* one quote per order, one position per accepted order, one terminal
\* sequence.
C10_RepublishChangesNothing ==
    Republished =>
        /\ \A o \in Orders :
               \A t \in {"PriceQuoted", "SwapExecuting", "SwapExecuted",
                         "OrderCompleted", "OrderFailed"} :
                   Cardinality(EventsOfType(OrderAgg(o), t)) <= 1
        /\ Cardinality({k \in 1..(nextPos - 1) :
                           EventStoreLoad(PositionAgg(k)) # <<>>})
               <= Cardinality(Orders)

\* The event types of an aggregate's stream, in version order.
Types(aggId) ==
    [i \in DOMAIN EventStoreLoad(aggId) |-> EventStoreLoad(aggId)[i].type]

\* The stream's versions are 1, 2, ... in order.
Numbered(aggId) ==
    \A i \in DOMAIN EventStoreLoad(aggId) : EventStoreLoad(aggId)[i].ver = i

Has(o, type) == EventsOfType(OrderAgg(o), type) # {}

Positions == {k \in 1..(nextPos - 1) : EventStoreLoad(PositionAgg(k)) # <<>>}

\* C11: a handler that stopped after saving its events and before marking
\* the event processed is replayed successfully and the workflow goes on;
\* for Step 3: once SwapExecuting is committed, the order eventually gets
\* its SwapExecuted or its OrderFailed.
C11_SafeReplay ==
    \A o \in Orders :
        Has(o, "SwapExecuting") ~> (Has(o, "SwapExecuted") \/ Has(o, "OrderFailed"))

\* The final streams of the happy path for order o.
HappyEnd(o) ==
    /\ Types(OrderAgg(o)) = <<"OrderAccepted", "PriceQuoted", "SwapExecuting",
                              "SwapExecuted", "OrderCompleted">>
    /\ Numbered(OrderAgg(o))
    /\ LoadOrderAggregate(o).agg.status = "completed"
    /\ \E k \in Positions :
           /\ Types(PositionAgg(k)) = <<"PositionCreated", "PositionUpdated">>
           /\ Numbered(PositionAgg(k))
           /\ EventStoreLoad(PositionAgg(k))[2].ref = o
    /\ Cardinality(LinkedTo(o)) = 1

SwapFailed(o) == Has(o, "OrderFailed") /\ Has(o, "SwapExecuting")

Compensating(o) ==
    \E w \in Workers :
        wk[w].msg.agg = o /\ wk[w].pc \in {"c_osave", "c_pload", "c_psave"}

ClosedPositions ==
    {k \in Positions :
        /\ Types(PositionAgg(k)) = <<"PositionCreated", "PositionClosed">>
        /\ Numbered(PositionAgg(k))
        /\ EventStoreLoad(PositionAgg(k))[2].reason = "order_failed"}

PriceFailed(o) == Has(o, "OrderFailed") /\ ~Has(o, "SwapExecuting")

InExecute(w) == wk[w].pc \in {"s4_oload", "s4_pload", "s4_osave", "s4_psave"}

\* The message of consumer w is back in its queue.
Requeued(w) == queue' = queue (+) SetToBag({wk[w].msg})

\* C15: when the completion use case fails, handleSwapExecuted returns the
\* error: the message is requeued, its event_id is not recorded as
\* processed, and nothing is committed, no OrderFailed or PositionClosed
\* in particular.
C15_CompletionFailureRetried ==
    [][\A w \in Workers :
          (InExecute(w) /\ wk'[w].pc = "idle")
              => /\ wk[w].lost \/ Requeued(w)
                 /\ processed' = processed
                 /\ log' = log]_vars

\* A completion that is about to fail: the order or the position cannot be
\* loaded or commanded, or the save holds a used version.
ExecuteFails(w) ==
    \/ /\ wk[w].pc = "s4_oload"
       /\ \/ ~LoadOrderAggregate(wk[w].msg.agg).ok
          \/ ~CompleteOrder(LoadOrderAggregate(wk[w].msg.agg).agg).ok
    \/ /\ wk[w].pc = "s4_pload"
       /\ ~LoadPositionAggregate(wk[w].msg.pos).ok
    \/ InExecute(w) /\ StaleSave(w)

\* C15 witness: a consumer inside the use case whose next call fails.
C15_Witness == \E w \in Workers : ExecuteFails(w) /\ ~wk[w].lost

\* The handler of consumer w is at a point where it returns nil.
ReturnsNil(w) ==
    \/ wk[w].pc = "mark"
    \/ wk[w].pc = "check" /\ wk[w].msg.id \in processed
    \/ wk[w].pc = "c_psave"
    \/ wk[w].pc = "c_osave" /\ wk[w].msg.key # "PositionCreatedForOrder"

\* C16: a message leaves its queue for good only when its handler returned
\* success; when the handler returns an error or the consumer stops, the
\* message is back in the queue for another delivery.
C16_AckOnlyOnSuccess ==
    [][\A w \in Workers :
          (wk[w].pc # "idle" /\ wk'[w].pc = "idle" /\ ~wk[w].lost)
              => (Requeued(w) \/ (ReturnsNil(w) /\ queue' = queue))]_vars

\* C16 witness: a handler about to return an error on a message that is
\* not in the queue.
C16_Witness ==
    \E w \in Workers :
        /\ StaleSave(w)
        /\ ~wk[w].lost
        /\ wk[w].msg \notin BagToSet(queue)

\* The commands of the Order command table.
TableCommands ==
    {"AcceptOrder", "InitializeOrder", "CheckBalances", "QuotePrice",
     "SetLimitPrice", "PlaceInOrderBook", "StartSwapExecution",
     "RecordSwapExecution", "PartiallyFill", "CompleteOrder", "FailOrder",
     "CancelOrder"}

OrderCommands == TableCommands \cup {"UpdateOrder"}

PositionCommands == {"CreatePosition", "AddOrder", "ClosePosition"}

\* The pre-state column of the command table; a new aggregate is one that
\* no event was applied to.
AllowedPreState(cmd, o) ==
    CASE cmd = "AcceptOrder" -> o.status = "" /\ o.version = 0
      [] cmd \in {"InitializeOrder", "CheckBalances", "QuotePrice",
                  "StartSwapExecution", "CancelOrder"} -> o.status = "pending"
      [] cmd \in {"SetLimitPrice", "PlaceInOrderBook"} ->
             o.status = "pending" /\ o.orderType = "limit"
      [] cmd \in {"RecordSwapExecution", "PartiallyFill"} -> o.status = "executing"
      [] cmd = "CompleteOrder" -> o.status \in {"executing", "completed"}
      [] cmd = "FailOrder" -> o.status # "completed"
      [] OTHER -> TRUE

\* C17: a command of the table invoked on an order that is not in an
\* allowed pre-state of that command returns an error, emits no event and
\* leaves status and version as they were.
C17_InvalidPreStateRejected ==
    (call.cmd \in TableCommands /\ ~AllowedPreState(call.cmd, call.pre))
        => (~call.ok /\ call.o = call.pre)

\* The pre-states in which the table has the command emit its event (the
\* no-op entries left out).
EmittingPreState(cmd, o) ==
    /\ AllowedPreState(cmd, o)
    /\ cmd = "CompleteOrder" => o.status = "executing"
    /\ cmd = "FailOrder" => o.status # "failed"

\* The validations of the table's commands.
ValidArguments(cmd, args, o) ==
    CASE cmd = "AcceptOrder" ->
             args[1] > 0 /\ args[1] >= MinOrderAmount /\ args[2] \in {"market", "limit"}
      [] cmd = "QuotePrice" -> args[1] > 0 /\ args[2] > 0
      [] cmd = "SetLimitPrice" -> args[1] > 0
      [] cmd = "PartiallyFill" -> 0 < args[1] /\ args[1] <= o.fromAmount
      [] OTHER -> TRUE

\* The event and post-state columns of the command table.
TableEvents(cmd) ==
    CASE cmd = "AcceptOrder" -> {"OrderAccepted"}
      [] cmd = "InitializeOrder" -> {"OrderInitialized"}
      [] cmd = "CheckBalances" -> {"BalanceCheckPassed", "BalanceCheckFailed"}
      [] cmd = "QuotePrice" -> {"PriceQuoted"}
      [] cmd = "SetLimitPrice" -> {"LimitPriceSet"}
      [] cmd = "PlaceInOrderBook" -> {"OrderPlacedInBook"}
      [] cmd = "StartSwapExecution" -> {"SwapExecuting"}
      [] cmd = "RecordSwapExecution" -> {"SwapExecuted"}
      [] cmd = "PartiallyFill" -> {"OrderPartiallyFilled"}
      [] cmd = "CompleteOrder" -> {"OrderCompleted"}
      [] cmd = "FailOrder" -> {"OrderFailed"}
      [] cmd = "CancelOrder" -> {"OrderCancelled"}
      [] OTHER -> {}

PostState(cmd, o) ==
    CASE cmd = "AcceptOrder" -> "pending"
      [] cmd = "StartSwapExecution" -> "executing"
      [] cmd = "CompleteOrder" -> "completed"
      [] cmd \in {"FailOrder", "CancelOrder"} -> "failed"
      [] OTHER -> o.status

\* The command appended exactly one event, with the next version.
OneEvent(pre, post, types) ==
    /\ Len(post.changes) = Len(pre.changes) + 1
    /\ SubSeq(post.changes, 1, Len(pre.changes)) = pre.changes
    /\ post.changes[Len(post.changes)].type \in types
    /\ post.changes[Len(post.changes)].ver = pre.version + 1
    /\ post.version = pre.version + 1

\* C18: a command of the table invoked in a pre-state in which the table
\* has it emit, with valid arguments, returns success, appends exactly one
\* event of the table's type to the uncommitted list and leaves the order
\* in the table's post-state.
C18_AllowedCommandEmits ==
    (/\ call.cmd \in TableCommands
     /\ EmittingPreState(call.cmd, call.pre)
     /\ ValidArguments(call.cmd, call.args, call.pre))
        => /\ call.ok
           /\ OneEvent(call.pre, call.o, TableEvents(call.cmd))
           /\ call.o.status = PostState(call.cmd, call.pre)

\* C18 witness: a partial fill of an executing order went through.
C18_Witness ==
    /\ call.cmd = "PartiallyFill"
    /\ call.pre.status = "executing"
    /\ call.ok
    /\ Len(call.pre.changes) >= 2

\* C19: CompleteOrder on a completed order, FailOrder on a failed order
\* and ClosePosition on a closed position return success, emit no event
\* and leave state and version unchanged.
C19_TerminalCommandsNoOp ==
    /\ (call.cmd = "CompleteOrder" /\ call.pre.status = "completed")
           => (call.ok /\ call.o = call.pre)
    /\ (call.cmd = "FailOrder" /\ call.pre.status = "failed")
           => (call.ok /\ call.o = call.pre)
    /\ (call.cmd = "ClosePosition" /\ call.ppre.status = "closed")
           => (call.ok /\ call.p = call.ppre)

\* C19 witness: FailOrder was invoked on an order that had failed.
C19_Witness ==
    /\ call.cmd = "FailOrder"
    /\ call.pre.status = "failed"
    /\ call.pre.changes # <<>>

\* C20: no Order command changes the status of a completed or failed
\* order or appends an event to it, and no Position command changes the
\* status of a closed position or appends an event to it.
C20_TerminalStatesAbsorbing ==
    /\ (call.cmd \in OrderCommands /\ call.pre.status \in {"completed", "failed"})
           => /\ call.o.status = call.pre.status
              /\ call.o.changes = call.pre.changes
    /\ (call.cmd \in PositionCommands /\ call.ppre.status = "closed")
           => /\ call.p.status = "closed"
              /\ call.p.changes = call.ppre.changes

\* The request of a CreateOrder call fails a validation of AcceptOrder.
InvalidRequest(args) ==
    args[2] <= 0 \/ args[2] < 10 \/ args[3] \notin {"market", "limit"}

\* C21: CreateOrder returns nil only when OrderAccepted, version 1, was
\* committed to the order's stream, which leaves the order pending; when
\* the request is invalid or the save fails it returns an error and
\* nothing is committed, so the stream of a new order stays empty.
C21_CreateOrderDurable ==
    [][call' # call =>
          /\ call'.cmd = "CreateOrder"
          /\ InvalidRequest(call'.args) => ~call'.ok
          /\ call'.ok =>
                /\ EventStoreLoad(OrderAgg(call'.args[1])) = <<>>
                /\ Len(log') = Len(log) + 1
                /\ SubSeq(log', 1, Len(log)) = log
                /\ log'[Len(log')].type = "OrderAccepted"
                /\ log'[Len(log')].ver = 1
                /\ log'[Len(log')].agg = OrderAgg(call'.args[1])
                /\ call'.o.status = "pending"
          /\ ~call'.ok => (log' = log /\ outbox' = outbox)]_vars

\* C21 witness: a valid request whose save failed on a new order id.
C21_Witness ==
    /\ call.cmd = "CreateOrder"
    /\ ~call.ok
    /\ ~InvalidRequest(call.args)
    /\ EventStoreLoad(OrderAgg(call.args[1])) = <<>>

\* The log holds one stream that starts with the aggregate's creation
\* event and is numbered 1..N.
StoredStream(first) ==
    /\ log # <<>>
    /\ log[1].type = first
    /\ \A i \in DOMAIN log : log[i].ver = i

\* C22: an Order or Position that went through valid commands and was
\* saved is loaded again with the same state and version and an empty
\* uncommitted list, whatever event types its stream holds.
C22_LoadAfterSave ==
    /\ (call.cmd = "SaveOrderAggregate" /\ call.ok /\ StoredStream("OrderAccepted"))
           => /\ LoadOrderAggregate(1).ok
              /\ LoadOrderAggregate(1).agg = call.o
              /\ call.o.changes = <<>>
    /\ (call.cmd = "SavePositionAggregate" /\ call.ok /\ StoredStream("PositionCreated"))
           => /\ LoadPositionAggregate(1).ok
              /\ LoadPositionAggregate(1).agg = call.p
              /\ call.p.changes = <<>>

\* C23: a save of a saga handler that fails on a version conflict or a
\* duplicate event_id does not end the invocation: the handler goes on,
\* to reload the aggregate and retry, and returns an error only after
\* several failed attempts.
C23_ConflictRetriedLocally ==
    [][\A w \in Workers :
          (StaleSave(w) /\ faults' = faults /\ wk'[w] # wk[w])
              => wk'[w].pc # "idle"]_vars

\* C24: the event log only grows at its end: every committed event stays
\* in the log, at its place and with its content, in every later state.
C24_LogAppendOnly ==
    [][log' # log =>
          /\ Len(log') > Len(log)
          /\ SubSeq(log', 1, Len(log)) = log]_vars

\* C24 witness: both aggregates have committed events, the relay has
\* published and flagged rows and a handler has recorded an event.
C24_Witness ==
    /\ Len(log) >= 4
    /\ \E i \in DOMAIN outbox : outbox[i].published
    /\ processed # {}

\* The events the handler of consumer w commits for its message are in
\* the log.
EffectsCommitted(w) ==
    LET o == wk[w].msg.agg IN
    CASE wk[w].msg.key = "OrderAccepted" -> Has(o, "PriceQuoted")
      [] wk[w].msg.key = "PriceQuoted" ->
             "PositionCreated" \in Range(Types(PositionAgg(wk[w].pos)))
      [] wk[w].msg.key = "PositionCreatedForOrder" ->
             Has(o, "SwapExecuting") /\ Has(o, "SwapExecuted")
      [] wk[w].msg.key = "SwapExecuted" ->
             /\ Has(o, "OrderCompleted")
             /\ \E e \in LinkedTo(o) : e.agg = PositionAgg(wk[w].msg.pos)
      [] OTHER -> TRUE

\* C25: a handler records its event as processed only after its effects
\* succeeded: the events of its step are committed and, for steps 2, 3
\* and 4, the bus accepted the follow-up message.
C25_ProcessedAfterEffects ==
    [][\A w \in Workers :
          (wk[w].pc = "mark" /\ processed' # processed)
              => /\ EffectsCommitted(w)
                 /\ wk[w].msg.key # "OrderAccepted" => wk[w].sent]_vars

\* The command of the last call appended an event to the uncommitted list.
Emitted == Len(call.o.changes) = Len(call.pre.changes) + 1

LastChange == call.o.changes[Len(call.o.changes)]

\* C26: an Order command that emits gives its event the version after the
\* aggregate's (AcceptOrder gives 1) and the aggregate takes the event's
\* version, so the uncommitted events of a loaded aggregate carry the
\* consecutive versions that follow the loaded one, which is the length
\* of the stored stream.
C26_ConsecutiveVersions ==
    (call.cmd \in OrderCommands /\ call.ok)
        => /\ Emitted =>
                 /\ LastChange.ver = IF call.cmd = "AcceptOrder" THEN 1
                                     ELSE call.pre.version + 1
                 /\ call.o.version = LastChange.ver
           /\ \A i \in DOMAIN call.o.changes :
                  call.o.changes[i].ver = Len(log) + i

\* What a Save step of the store does to an uncommitted list: nothing when
\* the list is empty, the list appended and cleared on success, the list
\* and the log as they were on failure.
SaveFrame(changes, after) ==
    /\ changes = <<>> => (call'.ok /\ log' = log /\ outbox' = outbox)
    /\ (call'.ok /\ changes # <<>>)
          => /\ after = <<>>
             /\ Len(log') = Len(log) + Len(changes)
             /\ SubSeq(log', 1, Len(log)) = log
             /\ \A i \in DOMAIN changes :
                    /\ log'[Len(log) + i].type = changes[i].type
                    /\ log'[Len(log) + i].ver = changes[i].ver
    /\ ~call'.ok => (after = changes /\ log' = log /\ outbox' = outbox)

\* C27: Save with an empty uncommitted list appends nothing and succeeds;
\* a successful append leaves the uncommitted list empty; a failed append
\* leaves the uncommitted list as it was and the log without any of it.
C27_SaveFrame ==
    [][/\ call'.cmd = "SaveOrderAggregate"
            => SaveFrame(call.o.changes, call'.o.changes)
       /\ call'.cmd = "SavePositionAggregate"
            => SaveFrame(call.p.changes, call'.p.changes)]_vars

\* A save of two uncommitted Order events was refused on a stream that
\* already holds events, and the two events are still uncommitted.
C27_Witness ==
    /\ call.cmd = "SaveOrderAggregate"
    /\ ~call.ok
    /\ Len(call.pre.changes) = 2
    /\ call.o.changes = call.pre.changes
    /\ log # <<>>

\* Consumer w committed, in the invocation it is in, the SwapExecuting
\* event of order o with the idempotency key "swap-" + o.
IntentCommitted(w, o) ==
    \E i \in DOMAIN log :
        /\ log[i].agg = OrderAgg(o)
        /\ log[i].type = "SwapExecuting"
        /\ log[i].key = <<"swap-", o>>
        /\ log[i].by = w
        /\ log[i].ver = wk[w].o.version

\* C28: the swap worker is called for an order only by a handler
\* invocation that has committed SwapExecuting with the idempotency key
\* "swap-" + order_id to the order's stream, and an invocation whose save
\* of SwapExecuting fails ends without calling the swap worker.
C28_IntentBeforeSwap ==
    [][/\ \A o \in Orders :
            swapCalls'[o] # swapCalls[o]
                => \E w \in Workers : /\ wk[w].pc = "s3_swap"
                                      /\ wk[w].msg.agg = o
                                      /\ wk'[w] # wk[w]
                                      /\ IntentCommitted(w, o)
       /\ \A w \in Workers :
            (wk[w].pc = "s3_save" /\ StaleSave(w) /\ wk'[w] # wk[w])
                => (wk'[w].pc = "idle" /\ swapCalls' = swapCalls)]_vars

\* The swap worker has been called for order 1 and SwapExecuting with the
\* key of order 1 is in the log.
C28_Witness ==
    /\ swapCalls[1] > 0
    /\ \E i \in DOMAIN log : /\ log[i].type = "SwapExecuting"
                             /\ log[i].key = generateIdempotencyKey(1)

\* A consumer holds an uncommitted SwapExecuting whose version another
\* writer has taken.
C28_SaveRefused == \E w \in Workers : wk[w].pc = "s3_save" /\ StaleSave(w)

\* Position k was created by Step 2 while it handled order o's PriceQuoted.
CreatedFor(k, o) ==
    \E i \in DOMAIN log :
        /\ log[i].agg = PositionAgg(k)
        /\ log[i].type = "PositionCreated"
        /\ log[i].handling = <<"PriceQuoted", o>>

\* A message a saga handler published itself: PositionCreatedForOrder, or
\* a SwapExecuted that is not the relay's copy of a stored event.
Synthetic(m) ==
    \/ m.key = "PositionCreatedForOrder"
    \/ m.key = "SwapExecuted" /\ \A i \in DOMAIN log : log[i].id # m.id

InFlight == BagToSet(queue) \cup {wk[w].msg : w \in Workers}

PublishedNow ==
    {pubSeq'[k] : k \in (Len(pubSeq) + 1)..Len(pubSeq')}

\* The outbox rows this step flagged.
FlaggedNow ==
    {i \in DOMAIN outbox : ~outbox[i].published /\ outbox'[i].published}

\* C30: a relay cycle flags a row only when its Publish call for the row
\* succeeded in that cycle; a selected row whose Publish was not made or
\* failed stays unflagged and is selected by the next cycle; and a cycle
\* that ran to its end with some Publish calls failed flags every row
\* whose Publish succeeded.
C30_MarkOnlyPublished ==
    [][/\ \A i \in FlaggedNow : outbox[i].id \in PublishedNow
       /\ \A k \in DOMAIN RelayBatch :
             outbox[RelayBatch[k]].id \notin PublishedNow
                 => /\ ~outbox'[RelayBatch[k]].published
                    /\ RelayBatch[k] \in Range(RelayBatch')
       /\ \A failed \in SUBSET (DOMAIN RelayBatch) :
             (pubSeq' # pubSeq /\ RelayRun(failed, Len(RelayBatch), TRUE))
                 => \A k \in DOMAIN RelayBatch \ failed :
                        outbox'[RelayBatch[k]].published]_vars

\* A cycle failed to publish a row, which is still unflagged and was never
\* published, and flagged a later row that it did publish.
C30_Witness ==
    /\ faults > 0
    /\ \E i, j \in DOMAIN outbox :
          /\ i < j
          /\ ~outbox[i].published
          /\ outbox[i].id \notin Range(pubSeq)
          /\ outbox[j].published
          /\ outbox[j].id \in Range(pubSeq)

\* The notifier calls made for an event, in order.
CallsFor(id) == SelectSeq(notif.calls, LAMBDA c : c.id = id)

\* The consumer whose step this is.
NotifyStep(k) == notif'.c[k] # notif.c[k]

\* C31: the notification handlers invoke the notifier only for an event_id
\* that is not recorded as processed, record the event_id only after the
\* notifier returned success for it in the same invocation, and on a
\* failed idempotency check, order load, notifier call or recording return
\* an error, after which the message is back in its queue and nothing was
\* recorded.
C31_NotifyIdempotent ==
    [][\A k \in NotifyKeys :
          LET m == notif.c[k].msg IN
          /\ (NotifyStep(k) /\ notif'.calls # notif.calls)
                => /\ m.id \notin processed
                   /\ notif.c[k].pc = "send"
          /\ (NotifyStep(k) /\ processed' # processed)
                => /\ processed' = processed \cup {m.id}
                   /\ CallsFor(m.id) # <<>>
                   /\ CallsFor(m.id)[Len(CallsFor(m.id))].ok
                   /\ notif'.calls = notif.calls
          /\ (NotifyStep(k) /\ notif'.faults # notif.faults)
                => /\ notif'.queue = notif.queue (+) SetToBag({m})
                   /\ notif'.c[k].pc = "idle"
                   /\ processed' = processed]_vars

\* After a failed notifier call and a failed recording the OrderFailed
\* event was notified twice with success and then recorded; a further
\* copy of the message was skipped.
C31_Witness ==
    /\ 2 \in processed
    /\ notif.faults = 2
    /\ Len(SelectSeq(notif.calls, LAMBDA c : c.id = 2 /\ c.ok)) = 2
    /\ notif.published = 3
    /\ notif.queue = EmptyBag
    /\ \A k \in NotifyKeys : notif.c[k].pc = "idle"

\* C32: over all interleavings of two Step 3 consumers, redeliveries and
\* duplicate PositionCreatedForOrder messages, ExecuteSwap is called at
\* most once for an order.
C32_SwapAtMostOnce == \A o \in Orders : swapCalls[o] <= 1

\* The swap was called for order 1 although two PositionCreatedForOrder
\* messages of the order were published and two consumers took them.
C32_Witness ==
    /\ swapCalls[1] = 1
    /\ CreatedFor(1, 1)
    /\ CreatedFor(2, 1)
    /\ \A w \in Workers : wk[w].msg.key = "PositionCreatedForOrder"

\* The PositionCreated events stored while order o's PriceQuoted was
\* handled.
PositionsCreatedFor(o) ==
    {i \in DOMAIN log : /\ log[i].type = "PositionCreated"
                         /\ log[i].handling = <<"PriceQuoted", o>>}

\* C33: over all interleavings of Step 2 consumers and redeliveries of
\* PriceQuoted, at most one PositionCreated exists for an order, and at
\* most one PositionCreatedForOrder: the messages of the order in flight
\* name one position.
C33_OnePositionPerOrder ==
    \A o \in Orders :
        /\ Cardinality(PositionsCreatedFor(o)) <= 1
        /\ Cardinality({m.pos : m \in {n \in InFlight :
                              /\ n.key = "PositionCreatedForOrder"
                              /\ n.agg = o}}) <= 1

\* C34: no Order stream holds both OrderCompleted and OrderFailed, and it
\* holds at most one of each.
C34_OneTerminalEvent ==
    \A o \in Orders :
        /\ ~(Has(o, "OrderCompleted") /\ Has(o, "OrderFailed"))
        /\ Cardinality(EventsOfType(OrderAgg(o), "OrderCompleted")) <= 1
        /\ Cardinality(EventsOfType(OrderAgg(o), "OrderFailed")) <= 1

\* The order failed while a consumer holds an uncommitted OrderCompleted
\* for it.
C34_Witness ==
    /\ Has(1, "OrderFailed")
    /\ \E w \in Workers :
          /\ wk[w].msg.agg = 1
          /\ \E i \in DOMAIN wk[w].o.changes :
                wk[w].o.changes[i].type = "OrderCompleted"

\* C35: once SwapExecuted is in an order's stream no OrderFailed is
\* committed to the stream afterwards.
C35_NoFailureAfterSwap ==
    \A o \in Orders :
        \A e \in EventsOfType(OrderAgg(o), "SwapExecuted") :
            \A f \in EventsOfType(OrderAgg(o), "OrderFailed") : f.ver < e.ver

\* C36: every SwapExecuted message handed to the Step 4 handler, the
\* relay's copy of the stored event included, carries a position_id.
C36_SwapExecutedHasPosition ==
    \A w \in Workers : wk[w].msg.key = "SwapExecuted" => wk[w].msg.pos # 0

\* No message is waiting in a saga queue or being handled.
Quiet == queue = EmptyBag /\ \A w \in Workers : wk[w].pc = "idle"

\* Every accepted order eventually has its OrderCompleted or OrderFailed.
OrdersTerminate ==
    \A o \in Orders :
        Has(o, "OrderAccepted") ~> (Has(o, "OrderCompleted") \/ Has(o, "OrderFailed"))

\* C37: under fair scheduling of the relay and the consumers, with services
\* that always answer, every accepted order eventually completes or fails
\* and every message of the saga queues is eventually acknowledged: again
\* and again no message is waiting or being handled.
C37_Progress == OrdersTerminate /\ []<>Quiet

\* C38: a Position stream holds a PositionUpdated for order O only if O's
\* stream holds OrderCompleted, holds at most one PositionUpdated per
\* order, and never holds both a PositionUpdated and a PositionClosed.
C38_OrderPositionConsistent ==
    \A k \in Positions :
        LET updates == EventsOfType(PositionAgg(k), "PositionUpdated") IN
        /\ \A e \in updates : e.ref \in Orders /\ Has(e.ref, "OrderCompleted")
        /\ \A e, f \in updates : e.ref = f.ref => e = f
        /\ ~(updates # {} /\ EventsOfType(PositionAgg(k), "PositionClosed") # {})

\* A Position has its PositionUpdated while a consumer handling a
\* SwapExecuted message is about to load a Position and add the order.
C38_Witness ==
    /\ \E k \in Positions : EventsOfType(PositionAgg(k), "PositionUpdated") # {}
    /\ \E w \in Workers : /\ wk[w].msg.key = "SwapExecuted"
                          /\ wk[w].msg.pos # 0
                          /\ wk[w].pc = "s4_pload"

\* C39: a SwapExecuted message that Step 3 published for order O is
\* waiting or being handled only if O's stream holds SwapExecuted.
C39_SyntheticImpliesCommitted ==
    \A m \in InFlight :
        (m.key = "SwapExecuted" /\ Synthetic(m)) => Has(m.agg, "SwapExecuted")

\* The event the last OrderBook command emitted, if it emitted one.
BookEmitted == Len(book.ob.changes) = Len(book.pre.changes) + 1

BookLast == book.ob.changes[Len(book.ob.changes)]

\* What OrdersMatched leaves of the best order of a side.
AfterMatch(s, amount) ==
    IF s[1].remaining - amount <= 0 THEN Tail(s)
    ELSE [s EXCEPT ![1].remaining = @ - amount]

CanMatch(ob) ==
    /\ ob.status = "active"
    /\ ob.buy # <<>>
    /\ ob.sell # <<>>
    /\ ob.buy[1].price >= ob.sell[1].price

\* C40: the buy side is sorted by price descending and the sell side
\* ascending; MatchOrders emits OrdersMatched exactly when the book is
\* active, both sides are non-empty and best buy >= best sell, for the
\* smaller of the two remaining amounts; the two matched orders are then
\* reduced by it and removed at 0; and every order in the book has a
\* positive remaining amount.
C40_OrderBookMatching ==
    /\ \A i, j \in DOMAIN book.ob.buy :
          i < j => book.ob.buy[i].price >= book.ob.buy[j].price
    /\ \A i, j \in DOMAIN book.ob.sell :
          i < j => book.ob.sell[i].price <= book.ob.sell[j].price
    /\ \A i \in DOMAIN book.ob.buy : book.ob.buy[i].remaining > 0
    /\ \A i \in DOMAIN book.ob.sell : book.ob.sell[i].remaining > 0
    /\ book.cmd = "MatchOrders"
          => /\ BookEmitted <=> CanMatch(book.pre)
             /\ BookEmitted
                   => LET amount == IF book.pre.buy[1].remaining
                                         < book.pre.sell[1].remaining
                                    THEN book.pre.buy[1].remaining
                                    ELSE book.pre.sell[1].remaining
                      IN  /\ BookLast.type = "OrdersMatched"
                          /\ BookLast.amount = amount
                          /\ book.ob.buy = AfterMatch(book.pre.buy, amount)
                          /\ book.ob.sell = AfterMatch(book.pre.sell, amount)

\* MatchOrders matched a buy order of 2 with a sell order of 1 at a lower
\* price: the sell order is gone and the buy order stays with 1.
C40_Witness ==
    /\ book.cmd = "MatchOrders"
    /\ BookEmitted
    /\ book.pre.buy[1].remaining = 2
    /\ book.pre.sell[1].remaining = 1
    /\ book.pre.buy[1].price > book.pre.sell[1].price
    /\ book.ob.sell = <<>>
    /\ Len(book.ob.buy) = 1
    /\ book.ob.buy[1].remaining = 1

====
